SPECIFICATION Spec

CONSTANTS
  Pkgs = {p1}
  Assets = {btc}
  NoAsset = none
  MaxOpen = 1
  Answers = {"clean"}

INVARIANT
  NoNakedLeg

CHECK_DEADLOCK FALSE
