\* One connection to a server with either m_isKeepLive, App changing the routes.
CONSTANTS
    s1 = s1
    s2 = s2
    c1 = c1
    NotFound = NotFound
    NoServlet = NoServlet
    Uris <- MCUris
    ExactUris <- MCExactUris
    Patterns <- MCPatterns
    Servlets <- MCServlets
    Conns <- MCConns
SPECIFICATION Spec
PROPERTY RoutesAsRegistered
