CONSTANTS
  Junk = Junk
  Garbled = Garbled
  Unset = Unset
  Weight <- MCWeight
  Input <- MCInput
  Slot <- MCSlot
  InputVal <- MCInputVal
  Graphs <- MCGraphs
  Often <- FewGraphs
  Apply <- MCApply
  WeightVal <- MCWeightVal
  MaxNode = 4
  MaxCalls = 2
  Accelerator <- AnyKind
SPECIFICATION FairSpec
INVARIANTS TypeOK Coherent HostReadsNoNpuCopy MirrorsAreFresh
PROPERTIES ImplementsGraphExec CallsReturn
CHECK_DEADLOCK FALSE
