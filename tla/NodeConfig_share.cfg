\* Two commands at a time on a node that exists and one that may come, with failures and kills.
CONSTANTS
  Users = {alice}
  Tags = {tokyo, osaka}
  Kinds = {"reality", "tls"}
  StartNodes = {tokyo}
  Jobs = {cli, tui}
  MaxCmds = 2
  MaxFaults = 1
SYMMETRY JobSymmetry
SPECIFICATION Spec
INVARIANTS TypeOK GrantsCarried MetaMatches StaysAcceptable LinkFits
CHECK_DEADLOCK FALSE
