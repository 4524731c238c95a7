CONSTANTS
  p1 = p1
  p2 = p2
  Probe <- Probes
  PoolSize = 1
SPECIFICATION DrainFairSpec
INVARIANTS DrainTypeOK ReportSound PoolConserved HeldUpBySilenceOnly
PROPERTIES DrainsLikeLifecycle EveryProbeEnds DrainEnds SilenceHoldsOnePool
