\* A NodeConfig is re-created while the controller works.
CONSTANTS
  Node = Node
  Credentials = Credentials
  Names <- OneName
  SecretNames <- TwoSecrets
  CredentialsOf <- CredentialsName
  Images = {centos}
  NoImage = NoImage
  HostStates <- SomeStates
  HostSteps <- SomeSteps
  UserMoves = {"create", "delete", "register"}
  MaxHosts = 1
  MaxUserOps = 4
  MaxFaults = 0
SPECIFICATION Spec
INVARIANTS ReadyMeansData
