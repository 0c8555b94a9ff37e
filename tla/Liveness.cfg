\* Lost calls, crashes and edits: no NodeConfig is left without a word or with
\* another spec.
CONSTANTS
  Node = Node
  Credentials = Credentials
  Names <- OneName
  SecretNames <- TwoSecrets
  CredentialsOf <- CredentialsName
  Images = {centos, ubuntu}
  NoImage = NoImage
  HostStates <- FewStates
  HostSteps <- FewSteps
  UserMoves = {"create", "edit", "strip"}
  MaxHosts = 1
  MaxUserOps = 2
  MaxFaults = 1
SPECIFICATION FairSpec
PROPERTIES NotForgotten SpecUntouched
