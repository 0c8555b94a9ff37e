\* Scenario #1 of the workflow: nothing fails, nobody meddles.
CONSTANTS
  Node = Node
  Credentials = Credentials
  Names <- OneName
  SecretNames <- TwoSecrets
  CredentialsOf <- CredentialsName
  Images = {centos}
  NoImage = NoImage
  HostStates <- SomeStates
  HostSteps <- SomeSteps
  UserMoves = {"create"}
  MaxHosts = 1
  MaxUserOps = 1
  MaxFaults = 0
SPECIFICATION FairSpec
PROPERTIES ScenarioOne
