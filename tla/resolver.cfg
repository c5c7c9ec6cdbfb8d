SPECIFICATION Spec
CONSTANTS
  Agents <- MCAgents
  CapabilitiesOf <- MCCapabilitiesOf
  Deployments <- MCDeployments
  Host <- MCHost
  Modalities <- MCModalities
  Window <- MCWindow
  Reserved <- MCReserved
  ImageCost <- MCImageCost
  Requests <- MCRequests
INVARIANTS BindingIsAllowed BindingIsOptimal PreflightsAgree
CHECK_DEADLOCK FALSE
