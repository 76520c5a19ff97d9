SPECIFICATION Spec
CONSTANTS
  MaxGen <- MCMaxGen
  MaxPolls <- MCMaxPolls
INVARIANT
  LossLatchesBarrier
