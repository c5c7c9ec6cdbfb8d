SPECIFICATION Spec
CONSTANTS
  Agents <- MCAgents
  CapabilitiesOf <- MCCapabilitiesOf
  Deployments <- MCDeployments
  Host <- MCHost
  Contract <- MCContract
  Artifacts <- MCArtifacts
  Placements <- MCPlacements
  Settings <- MCSettings
  Proposals <- MCProposals
  Steps = 2
  Down = Down
  None = None
INVARIANTS
  ValidatedWorkersDoNotRefuse
  BoundWorkersAreNamed
  FaithfulWorkersAreAccepted
CHECK_DEADLOCK FALSE
