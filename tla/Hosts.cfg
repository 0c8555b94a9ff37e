\* Hosts are registered and deleted while calls of the controller are lost and
\* it crashes: three moves, two and one fault, or one and two faults.
CONSTANTS
  Node = Node
  Credentials = Credentials
  Names <- OneName
  SecretNames <- TwoSecrets
  CredentialsOf <- CredentialsName
  Images = {centos}
  NoImage = NoImage
  HostStates <- FewStates
  HostSteps <- FewSteps
  UserMoves = {"create", "register", "unregister"}
  MaxHosts = 2
  MaxUserOps = 3
  MaxFaults = 2
SPECIFICATION Spec
CONSTRAINT FewDisturbances
INVARIANTS OwnerConfigured ReadyConfigured
