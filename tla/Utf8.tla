-------------------------------- MODULE Utf8 --------------------------------
(***************************************************************************)
(* utf8_complete_prefix (src/src/vlm/engine.cpp): how much of a text that  *)
(* may have been cut anywhere ends with a whole character. A byte is the   *)
(* class the code tells apart by its high bits.                            *)
(***************************************************************************)
EXTENDS Naturals, Sequences, FiniteSetsExt

Byte == {"ascii", "lead2", "lead3", "lead4", "cont"}

\* The bytes of the character a byte starts.
Need(b) == CASE b = "lead2" -> 2 [] b = "lead3" -> 3 [] b = "lead4" -> 4 [] OTHER -> 1

FromEnd(s, i) == s[Len(s) + 1 - i]

\* The last of the four trailing bytes that starts a character decides.
CompletePrefix(s) ==
  LET starts == {i \in 1 .. 4 : i <= Len(s) /\ FromEnd(s, i) # "cont"}
      i      == Min(starts)
  IN IF starts # {} /\ Need(FromEnd(s, i)) > i THEN Len(s) - i ELSE Len(s)

Cut(s) == SubSeq(s, 1, CompletePrefix(s))

-----------------------------------------------------------------------------
(* What UTF-8 is, independently of the code. *)

\* Byte j belongs to the character that starts at i.
Covers(s, i, j) == s[i] # "cont" /\ j \in i .. i + Need(s[i]) - 1

\* A sequence of characters: each byte belongs to just one, and none is cut.
Whole(s) ==
  /\ \A j \in DOMAIN s : \E i \in DOMAIN s : Covers(s, i, j)
  /\ \A i \in DOMAIN s : \A j \in DOMAIN s : i # j /\ Covers(s, i, j) => s[j] = "cont"
  /\ \A i \in DOMAIN s : s[i] # "cont" => i + Need(s[i]) - 1 <= Len(s)

\* A text that some more bytes would make whole.
WellFormedSoFar(s) ==
  \/ Whole(s)
  \/ \E k \in 1 .. 3 : k <= Len(s) /\ Whole(SubSeq(s, 1, Len(s) - k)) /\
       /\ Need(FromEnd(s, k)) > k
       /\ \A i \in 1 .. k - 1 : FromEnd(s, i) = "cont"
=============================================================================
