\* Typed names and followed links, in every registry of the offered entries.
CONSTANTS
    Labels <- MCLabels
    ValidNames <- Valid
    Lower <- MCLower
    Root = "root"
    Users <- MCUsers
    Services = {"service"}
    Owner <- Owners
    Offers <- MCOffers
    Ports <- MCPorts
    Asked <- MCAsked
SPECIFICATION DelegationSpec
INVARIANTS
    DelegationTypeOK
    LinksLead
    WhosePage
PROPERTIES
    NoLoops
