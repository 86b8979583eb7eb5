\* App assigns m_default while the connection falls back to it.
CONSTANTS
    s1 = s1
    s2 = s2
    c1 = c1
    NotFound = NotFound
    NoServlet = NoServlet
    Uris <- MCUris
    ExactUris <- MCExactUris
    Patterns <- MCPatterns
    Servlets <- MCServlets
    Conns <- MCConns
SPECIFICATION Spec
INVARIANT NoDefaultRace
