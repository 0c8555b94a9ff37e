\* Scenario #3 of the workflow, with a lost call.
CONSTANTS
  Node = Node
  Credentials = Credentials
  Names <- OneName
  SecretNames <- TwoSecrets
  CredentialsOf <- CredentialsName
  Images = {centos}
  NoImage = NoImage
  HostStates <- FewStates
  HostSteps <- FewSteps
  UserMoves = {"create", "register"}
  MaxHosts = 1
  MaxUserOps = 2
  MaxFaults = 1
SPECIFICATION FairSpec
PROPERTIES BothRemoved
