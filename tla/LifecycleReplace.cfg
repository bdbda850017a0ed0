\* A daemon that serves HTTPS too, and its replacement on the same ports.
CONSTANTS
    Instances = {i1, i2}
    Secure = {i1}
    Ports <- DefaultPorts
    HTTPPort <- SameHTTP
    HTTPSPort <- SameHTTPS
    Nobody = Nobody
SPECIFICATION Spec
INVARIANTS
    LifecycleTypeOK
    ForwardReachable
PROPERTIES
    ForwardLeftAlone
    ControlKept
    NothingLeftOpen
    Returns
