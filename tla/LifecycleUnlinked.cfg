\* A daemon is stopped while its replacement starts.
CONSTANTS
    Instances = {i1, i2}
    Secure = {}
    Ports <- DefaultPorts
    HTTPPort <- SameHTTP
    HTTPSPort <- SameHTTPS
    Nobody = Nobody
SPECIFICATION Spec
INVARIANTS
    ControlReachable
