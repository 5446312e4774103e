SPECIFICATION Spec
CONSTANTS
    Deployments <- MCDeployments
    HostsOf <- MCHostsOf
    MaxBoots <- MCMaxBoots
    MaxFaults <- MCMaxFaults
    MaxKeys = 5
    MaxSeals = 2
INVARIANTS DirectoryKept PlatformSound ServedAsDeployed
PROPERTIES StartsAndRegisters
CHECK_DEADLOCK FALSE
