--------------------------- MODULE ServletDispatch ---------------------------
(***************************************************************************)
(* URI routing of src/server/http/servlet.{h,cc} and the per-connection  *)
(* loop of HttpServer::handleClient (src/server/http/http_server.cc).     *)
(*                                                                         *)
(* The routing table is changed by App (addServlet, addGlobServlet,       *)
(* delServlet, delGlobServlet, setDefault) while connection fibers route  *)
(* requests.  Every table operation but setDefault holds m_mutex (a       *)
(* RWMutex) for its whole body, so each is one atomic step that waits for *)
(* the readers to leave.  setDefault assigns m_default without the lock;   *)
(* the assignment and the copy of m_default in getMatchedServlet are each *)
(* two steps, so that TLC sees them overlap.  A connection looks the      *)
(* servlet up under the read lock and runs it after releasing it.        *)
(*                                                                         *)
(* URIs and glob patterns are short sequences of characters, because the *)
(* routing decision is a property of their characters (fnmatch).  A       *)
(* servlet is a model value; NotFound is the NotFoundServlet the           *)
(* constructor installs as m_default.                                      *)
(***************************************************************************)
EXTENDS Naturals, Sequences, SequencesExt

CONSTANTS
    Uris,          \* request paths (sequences of characters)
    ExactUris,     \* the paths App registers exact servlets for
    Patterns,      \* the glob patterns App registers ("*" and "?" wildcards)
    Servlets,      \* servlets App registers
    NotFound,      \* the NotFoundServlet made by ServletDispatch()
    NoServlet,     \* no entry in m_datas
    Conns          \* accepted client connections

ASSUME /\ ExactUris \subseteq Uris
       /\ NotFound \notin Servlets /\ NoServlet \notin Servlets \cup {NotFound}

\* The servlet objects: those App registers, and the NotFoundServlet the
\* constructor installs as m_default.
AllServlets == Servlets \cup {NotFound}
Request == [uri : Uris, close : BOOLEAN]
Response == [servlet : AllServlets \cup {NoServlet}, close : BOOLEAN]

VARIABLES
    datas,     \* m_datas: exact path -> servlet
    globs,     \* m_globs: sequence of <<pattern, servlet>>
    default,   \* m_default
    conn,      \* where each handleClient loop is
    req,       \* the request each connection is serving
    rsp,       \* the response it has built
    live,      \* history: the servlet each pattern is registered with
    before,    \* history: <<p, q>> when p's registration is older than q's
    isKeepLive, \* HttpServer::m_isKeepLive, fixed by the constructor
    writing    \* the servlet setDefault is assigning, NoServlet when idle

vars == <<datas, globs, default, conn, req, rsp, live, before, isKeepLive, writing>>

TypeOK ==
    /\ datas \in [Uris -> Servlets \cup {NoServlet}]
    /\ globs \in Seq(Patterns \X Servlets)
    /\ default \in AllServlets
    /\ conn \in [Conns -> {"recv", "dispatch", "copy", "send", "closed"}]
    /\ req \in [Conns -> Request \cup {<<>>}]
    /\ rsp \in [Conns -> Response \cup {<<>>}]
    /\ live \in [Patterns -> Servlets \cup {NoServlet}]
    /\ before \subseteq Patterns \X Patterns
    /\ isKeepLive \in BOOLEAN
    /\ writing \in AllServlets \cup {NoServlet}

\* ServletDispatch(): empty tables, m_default = NotFoundServlet; every
\* connection enters the do-loop of handleClient.
Init ==
    /\ datas = [u \in Uris |-> NoServlet]
    /\ globs = <<>>
    /\ default = NotFound
    /\ conn = [c \in Conns |-> "recv"]
    /\ req = [c \in Conns |-> <<>>]
    /\ rsp = [c \in Conns |-> <<>>]
    /\ live = [p \in Patterns |-> NoServlet]
    /\ before = {}
    /\ isKeepLive \in BOOLEAN
    /\ writing = NoServlet

-----------------------------------------------------------------------------
(* fnmatch(pattern, string, 0) for patterns without brackets or escapes:  *)
(* "*" matches any run of characters, "/" included (no FNM_PATHNAME), "?"  *)
(* any one character, every other character itself.                      *)

\* Fault: a "*" that must consume at least one character.
RECURSIVE FnMatchNonEmptyStar(_, _)
FnMatchNonEmptyStar(p, s) ==
    IF p = <<>> THEN s = <<>>
    ELSE IF Head(p) = "*"
         THEN s # <<>> /\ (FnMatchNonEmptyStar(Tail(p), Tail(s))
                           \/ FnMatchNonEmptyStar(p, Tail(s)))
         ELSE s # <<>> /\ Head(p) \in {"?", Head(s)}
              /\ FnMatchNonEmptyStar(Tail(p), Tail(s))

RECURSIVE FnMatch(_, _)
FnMatch(p, s) ==
    IF p = <<>> THEN s = <<>>
    ELSE IF Head(p) = "*"
         THEN FnMatch(Tail(p), s) \/ (s # <<>> /\ FnMatch(p, Tail(s)))
         ELSE s # <<>> /\ Head(p) \in {"?", Head(s)} /\ FnMatch(Tail(p), Tail(s))

\* Reference: s matches p when s can be cut into Len(p) consecutive pieces,
\* piece i being any run for "*", one character for "?", p[i] otherwise.
GlobRef(p, s) ==
    \E cut \in [0..Len(p) -> 0..Len(s)] :
        /\ cut[0] = 0 /\ cut[Len(p)] = Len(s)
        /\ \A i \in 1..Len(p) :
             LET piece == SubSeq(s, cut[i-1] + 1, cut[i]) IN
             /\ cut[i-1] <= cut[i]
             /\ CASE p[i] = "*" -> TRUE
                  [] p[i] = "?" -> Len(piece) = 1
                  [] OTHER      -> piece = <<p[i]>>

-----------------------------------------------------------------------------
(* The routing table                                                       *)

\* The loop of addGlobServlet/delGlobServlet: erase the first entry whose
\* pattern is p, if any.
EraseGlob(gs, p) == RemoveFirstMatch(gs, LAMBDA e : e[1] = p)

\* Fault: the lookup tries the glob list before m_datas.
MatchedEntryGlobsFirst(u) ==
    LET i == SelectInSeq(globs, LAMBDA e : FnMatch(e[1], u)) IN
    CASE i > 0                -> globs[i][2]
      [] datas[u] # NoServlet -> datas[u]
      [] OTHER                -> NoServlet

\* The table part of getMatchedServlet(uri): the exact entry, else the
\* first glob in list order that fnmatch accepts, else NoServlet, where
\* the function goes on to return m_default.
MatchedEntry(u) ==
    LET i == SelectInSeq(globs, LAMBDA e : FnMatch(e[1], u)) IN
    CASE datas[u] # NoServlet -> datas[u]
      [] i > 0                -> globs[i][2]
      [] OTHER                -> NoServlet

\* RWMutex::WriteLock: a writer waits until no connection holds the read
\* lock, which getMatchedServlet keeps while it copies m_default.
WriteLock == \A c \in Conns : conn[c] # "copy"

\* The history of glob registrations: p becomes the youngest entry.
Register(p, s) ==
    /\ live' = [live EXCEPT ![p] = s]
    /\ before' = {e \in before : p \notin {e[1], e[2]}}
                 \cup {<<q, p>> : q \in {r \in Patterns \ {p} : live[r] # NoServlet}}

Unregister(p) ==
    /\ live' = [live EXCEPT ![p] = NoServlet]
    /\ before' = {e \in before : p \notin {e[1], e[2]}}

\* Fault: addServlet that does not wait for the readers of m_mutex.
addServletUnlocked(u, s) ==
    /\ datas' = [datas EXCEPT ![u] = s]
    /\ UNCHANGED <<isKeepLive, writing, globs, default, conn, req, rsp, live, before>>

\* addServlet(uri, slt) and addServlet(uri, cb): m_datas[uri] = servlet.
addServlet(u, s) ==
    /\ WriteLock
    /\ datas' = [datas EXCEPT ![u] = s]
    /\ UNCHANGED <<isKeepLive, writing, globs, default, conn, req, rsp, live, before>>

\* Fault: addGlobServlet appending without erasing an older entry.
addGlobServletNoErase(p, s) ==
    /\ WriteLock
    /\ globs' = Append(globs, <<p, s>>)
    /\ Register(p, s)
    /\ UNCHANGED <<isKeepLive, writing, datas, default, conn, req, rsp>>

\* addGlobServlet(uri, slt): erase the old entry for uri, then push_back.
addGlobServlet(p, s) ==
    /\ WriteLock
    /\ globs' = Append(EraseGlob(globs, p), <<p, s>>)
    /\ Register(p, s)
    /\ UNCHANGED <<isKeepLive, writing, datas, default, conn, req, rsp>>

delServlet(u) ==
    /\ WriteLock
    /\ datas' = [datas EXCEPT ![u] = NoServlet]
    /\ UNCHANGED <<isKeepLive, writing, globs, default, conn, req, rsp, live, before>>

delGlobServlet(p) ==
    /\ WriteLock
    /\ globs' = EraseGlob(globs, p)
    /\ Unregister(p)
    /\ UNCHANGED <<isKeepLive, writing, datas, default, conn, req, rsp>>

\* setDefault(v): m_default = v, without m_mutex.  The shared_ptr
\* assignment starts (its new value is `writing`) ...
setDefault(s) ==
    /\ writing = NoServlet
    /\ writing' = s
    /\ UNCHANGED <<isKeepLive, default, datas, globs, conn, req, rsp, live, before>>

\* ... and completes.
setDefaultDone ==
    /\ writing # NoServlet
    /\ default' = writing
    /\ writing' = NoServlet
    /\ UNCHANGED <<isKeepLive, datas, globs, conn, req, rsp, live, before>>

-----------------------------------------------------------------------------
(* HttpServer::handleClient, one do-loop iteration per request            *)

\* session->recvRequest() returns a parsed request.
recvRequest(c) ==
    /\ conn[c] = "recv"
    /\ \E r \in Request : req' = [req EXCEPT ![c] = r]
    /\ conn' = [conn EXCEPT ![c] = "dispatch"]
    /\ UNCHANGED <<isKeepLive, writing, datas, globs, default, rsp, live, before>>

\* recvRequest() fails (peer closed, parse error): break, session->close().
recvFail(c) ==
    /\ conn[c] = "recv"
    /\ conn' = [conn EXCEPT ![c] = "closed"]
    /\ UNCHANGED <<isKeepLive, writing, datas, globs, default, req, rsp, live, before>>

\* A response with close = isClose() || !m_isKeepLive, then
\* m_dispatch->handle(): getMatchedServlet(path) takes the read lock and
\* returns the exact or glob servlet, which handles the request; when none
\* matches it goes on to copy m_default, still under the read lock.
handle(c) ==
    LET e == MatchedEntry(req[c].uri) IN
    /\ conn[c] = "dispatch"
    /\ rsp' = [rsp EXCEPT ![c] = [servlet |-> e,
                                  close |-> req[c].close \/ ~isKeepLive]]
    /\ conn' = [conn EXCEPT ![c] = IF e = NoServlet THEN "copy" ELSE "send"]
    /\ UNCHANGED <<isKeepLive, writing, datas, globs, default, req, live, before>>

\* `return m_default;`: the copy of the shared_ptr completes, the read lock
\* is released, and the default servlet handles the request.
getMatchedServlet(c) ==
    /\ conn[c] = "copy"
    /\ rsp' = [rsp EXCEPT ![c].servlet = default]
    /\ conn' = [conn EXCEPT ![c] = "send"]
    /\ UNCHANGED <<isKeepLive, writing, datas, globs, default, req, live, before>>

\* sendResponse(rsp); break when !m_isKeepLive || req->isClose(), and then
\* session->close(); req and rsp go out of scope with the iteration.
sendResponse(c) ==
    /\ conn[c] = "send"
    /\ conn' = [conn EXCEPT ![c] = IF ~isKeepLive \/ req[c].close
                                   THEN "closed" ELSE "recv"]
    /\ req' = [req EXCEPT ![c] = <<>>]
    /\ rsp' = [rsp EXCEPT ![c] = <<>>]
    /\ UNCHANGED <<isKeepLive, writing, datas, globs, default, live, before>>

AppCall ==
    \/ \E u \in ExactUris, s \in Servlets : addServlet(u, s)
    \/ \E u \in ExactUris : delServlet(u)
    \/ \E p \in Patterns, s \in Servlets : addGlobServlet(p, s)
    \/ \E p \in Patterns : delGlobServlet(p)
    \/ \E s \in AllServlets : setDefault(s)

\* App is one thread: it calls nothing while its setDefault is under way.
AppStep ==
    \/ setDefaultDone
    \/ writing = NoServlet /\ AppCall

ConnStep(c) ==
    \/ recvRequest(c)
    \/ recvFail(c)
    \/ handle(c)
    \/ getMatchedServlet(c)
    \/ sendResponse(c)

Next == AppStep \/ \E c \in Conns : ConnStep(c)

Spec == Init /\ [][Next]_vars

-----------------------------------------------------------------------------
(* Properties                                                              *)

\* The servlet the history of registrations calls for: the exact servlet,
\* else the servlet of the matching pattern registered longest ago (a
\* re-registration counts as new), else the default.
RefRoute(u) ==
    LET cand == {p \in Patterns : live[p] # NoServlet /\ GlobRef(p, u)} IN
    CASE datas[u] # NoServlet -> datas[u]
      [] cand # {}            -> live[CHOOSE p \in cand :
                                        ~\E q \in cand : <<q, p>> \in before]
      [] OTHER                -> default

\* Every request that handleClient dispatches is handled by the servlet
\* the sequence of add/del calls made so far selects for its path: exact
\* before glob, fnmatch's notion of a match, the oldest registration of a
\* matching pattern first, and a re-added pattern replacing its old entry.
RoutesAsRegistered ==
    [][\A c \in Conns :
         conn[c] \in {"dispatch", "copy"} /\ conn'[c] = "send"
           => rsp'[c].servlet = RefRoute(req[c].uri)]_vars

\* Every access to m_default is race-free: no connection copies the
\* shared_ptr in getMatchedServlet while setDefault is assigning it.  The
\* other table operations take m_mutex for writing and so exclude the
\* readers; a racing shared_ptr copy can pair one servlet's pointer with
\* another's reference count.
NoDefaultRace ==
    writing # NoServlet => \A c \in Conns : conn[c] # "copy"

=============================================================================
