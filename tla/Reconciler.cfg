\* One name: every interleaving of the controller with two users' steps and
\* one fault.
CONSTANTS
  Node = Node
  Credentials = Credentials
  Names <- OneName
  SecretNames <- TwoSecrets
  CredentialsOf <- CredentialsName
  Images = {centos}
  NoImage = NoImage
  HostStates <- FewStates
  HostSteps <- FewSteps
  UserMoves <- Moves
  MaxHosts = 1
  MaxUserOps = 2
  MaxFaults = 1
SPECIFICATION Spec
INVARIANTS TypeOK ReadySecret ReadyHandsOff ReadyMessage
PROPERTIES ReadyStable ImplementsBootstrap
