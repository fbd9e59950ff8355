SPECIFICATION Spec

SYMMETRY PackageSymmetry
VIEW PackageView

CONSTANTS
  Pkgs = {p1, p2}
  Assets = {btc, eth}
  NoAsset = none
  MaxOpen = 2
  Answers <- MCAnswers

INVARIANTS
  TypeOK
  RegistryAgrees
  LockedUnbreached
  LogIsHardGate
  ClaimIsHonest
  UnwindPassesHalt

PROPERTY
  LifecycleKept

CHECK_DEADLOCK FALSE
