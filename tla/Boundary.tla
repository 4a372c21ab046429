------------------------------ MODULE Boundary ------------------------------
(***************************************************************************)
(* What the companion lets through, and to whom: which school and gateway  *)
(* it takes on and sends its credential to, which requests it accepts, and *)
(* which address it forwards them to.  The same thing is checked at        *)
(* several places and times: by pair, by run after the configuration has   *)
(* lain in a file that a user may edit, by Dial, by the read loop, by      *)
(* Forward, and by the dialer of the model API, with name resolution and   *)
(* the clock moving on between them.                                       *)
(***************************************************************************)
EXTENDS Naturals, Sequences

CONSTANTS
    Hosts,   \* host names a URL may carry
    NoHost,  \* the empty host
    Ports,   \* port numbers
    NoPort,  \* no port in a URL
    HTTPS,   \* port 443
    Window,  \* how far ahead a deadline may lie, five minutes
    MaxTime, \* bound: how far the clock goes
    None

ASSUME BoundaryAssumption ==
    /\ NoHost \notin Hosts
    /\ HTTPS \in Ports
    /\ Window \in Nat
    /\ MaxTime \in Nat
    /\ None \notin {"loopback", "outside"}

\* A URL: extra stands for user info, a query or a fragment, padded for a space
\* in front of it or at its end.
URLs(schemes, hosts, ports, paths) ==
    [scheme : schemes, host : hosts \cup {NoHost}, port : ports \cup {NoPort},
     extra : BOOLEAN, path : paths, padded : {"no", "front", "back"}]
Origins == URLs({"https", "http"}, Hosts, Ports, {"", "/", "/other"})
Gateways == URLs({"wss", "https"}, Hosts, Ports, {"/ws", "/other"})
LocalURLs == URLs({"http", "ftp"}, {"localhost"}, {}, {"", "/", "/v1", "/v1/", "/other"})
Tokens == {"plain", "broken"}   \* broken: with a line break in it

\* What a lookup in the DNS may return.
Addresses == {"loopback", "outside"}
Answers == {<<>>} \cup {<<a>> : a \in Addresses} \cup (Addresses \X Addresses)

\* A request message: wellFormed stands for its type and its id, tooLong for a
\* body over the limit.  A deadline of 0 is none.
Bodies == {"none", "notJSON", "null", "array", "object", "stream false",
           "stream null", "stream true", "stream text"}
Requests == [wellFormed : BOOLEAN, tooLong : BOOLEAN, body : Bodies,
             method : {"GET", "POST", "PUT"}, padded : BOOLEAN,
             path : {"/v1/models", "/v1/responses", "/v1/chat/completions", "/other"},
             deadline : 0 .. MaxTime + Window + 1]

VARIABLES
    config,  \* contents of config.json
    edited,  \* has a user edited it?
    at,      \* "file", or how far run has come with it
    peer,    \* history: whom a credential of this config has been sent to
    now,     \* the clock
    request, \* the request in hand, between the read loop and Forward
    reached  \* history: the address the last local connection was made to

configVars == <<config, edited>>
vars == <<configVars, at, peer, now, request, reached>>

-----------------------------------------------------------------------------
(***************************************************************************)
(* The checks of URLs and credentials                                      *)
(***************************************************************************)

\* gateway.ValidateSchoolOrigin trims, checks...
ValidSchoolOrigin(u) ==
    u.scheme = "https" /\ u.host # NoHost /\ ~u.extra /\ u.path \in {"", "/"}

\* Mutant: the origin is kept as it was typed.
SchoolOriginAsTyped(u) == u

\* ... and normalises.
SchoolOrigin(u) == [u EXCEPT !.path = "", !.padded = "no"]

\* Mutant: the port is not looked at.
ValidWebSocketURLAnyPort(u, origin) ==
    u.scheme = "wss" /\ u.host = origin.host /\ u.path = "/ws" /\ ~u.extra

\* gateway.ValidateWebSocketURL, which trims as well.
ValidWebSocketURL(u, origin) ==
    /\ u.scheme = "wss" /\ u.host = origin.host /\ u.port = origin.port
    /\ u.path = "/ws" /\ ~u.extra

\* Enroll fills in a URL the school left out.
DerivedWebSocketURL(origin) == [origin EXCEPT !.scheme = "wss", !.path = "/ws"]

\* The head of Dial, which does not trim: a URL with a space in front has no
\* scheme.  It refuses a credential that does not fit in a header.
DialAccepts(u, token) ==
    /\ u.scheme = "wss" /\ u.host # NoHost /\ ~u.extra /\ u.padded # "front"
    /\ token = "plain"

\* The path its handshake asks for; a space at the end of the URL ends in it.
Requested(u) == IF u.padded = "back" THEN "/other" ELSE u.path

\* The host and port a URL leads to.
Endpoint(u) == <<u.host, IF u.port = NoPort THEN HTTPS ELSE u.port>>

\* ensureLoopbackHost on the present answer of the DNS.
AllLoopback(answer) == answer # <<>> /\ \A i \in DOMAIN answer : answer[i] = "loopback"

\* localapi.ValidateBaseURL.
ValidBaseURL(u, answer) ==
    /\ u.scheme \in {"http", "https"} /\ ~u.extra /\ u.host # NoHost
    /\ u.path \in {"", "/", "/v1", "/v1/"}
    /\ AllLoopback(answer)

BaseURL(u) == [u EXCEPT !.path = "/v1", !.padded = "no"]

\* Mutant: only the first address is checked.
ConnectsToUnchecked(answer, up, i) ==
    /\ i \in up
    /\ answer[1] = "loopback"
    /\ \A j \in 1 .. i - 1 : j \notin up

\* loopbackDialer tries the addresses of the answer in turn, of which those in
\* up take connections, and stops at the first that is not a loopback address.
ConnectsTo(answer, up, i) ==
    /\ i \in up
    /\ \A j \in 1 .. i : answer[j] = "loopback"
    /\ \A j \in 1 .. i - 1 : j \notin up

-----------------------------------------------------------------------------
(***************************************************************************)
(* The checks of a request                                                 *)
(***************************************************************************)

\* Mutant: a deadline must leave some time for the model.
DeadlineWithSlack(d) == d = 0 \/ (d > now + 1 /\ d <= now + Window)

\* The end of ValidateRequest.
DeadlineOK(d) == d = 0 \/ (d > now /\ d <= now + Window)

\* Its switch on the path: what the body must be.
BodyOK(path, body) ==
    IF path = "/v1/models" THEN body \in {"none", "null"}
    ELSE body \in {"object", "stream false", "stream null"}

\* ValidateRequest; it trims the method before it looks at it.
ValidRequest(r) ==
    /\ r.wellFormed
    /\ ~r.tooLong
    /\ \/ r.path = "/v1/models" /\ r.method = "GET"
       \/ r.path \in {"/v1/responses", "/v1/chat/completions"} /\ r.method = "POST"
    /\ BodyOK(r.path, r.body)
    /\ DeadlineOK(r.deadline)

\* http.NewRequest takes the method as it is.
ValidMethod(r) == ~r.padded

-----------------------------------------------------------------------------
(***************************************************************************)
(* Steps                                                                   *)
(***************************************************************************)

Init ==
    /\ config = None
    /\ edited = FALSE
    /\ at = "file"
    /\ peer = None
    /\ now = 0
    /\ request = None
    /\ reached = None

\* pair: the URLs of the user and of the school pass the checks, and what they
\* are normalised to is saved; the WebSocket URL as the school sent it.
Pair ==
    /\ config = None
    /\ \E school \in Origins, local \in LocalURLs, answer \in Answers, token \in Tokens :
          /\ ValidSchoolOrigin(school)
          /\ ValidBaseURL(local, answer)
          /\ \E ws \in Gateways \cup {DerivedWebSocketURL(SchoolOrigin(school))} :
                /\ ValidWebSocketURL(ws, SchoolOrigin(school))
                /\ config' = [origin |-> SchoolOrigin(school), ws |-> ws,
                              local |-> BaseURL(local), token |-> token]
    /\ UNCHANGED <<edited, at, peer, now, request, reached>>

\* The user edits one field of config.json.
Edit ==
    /\ config # None
    /\ at = "file"
    /\ ~edited
    /\ \/ \E u \in Origins : config' = [config EXCEPT !.origin = u]
       \/ \E u \in Gateways : config' = [config EXCEPT !.ws = u]
       \/ \E u \in LocalURLs : config' = [config EXCEPT !.local = u]
       \/ \E t \in Tokens : config' = [config EXCEPT !.token = t]
    /\ edited' = TRUE
    /\ peer' = None
    /\ UNCHANGED <<at, now, request, reached>>

\* Mutant: run trusts config.json.
RunAcceptsAll(c, answer) == ValidBaseURL(c.local, answer)

\* Mutant: run insists on the URL that Enroll would have filled in.
RunAcceptsDerivedOnly(c, answer) ==
    c.ws = DerivedWebSocketURL(c.origin) /\ ValidBaseURL(c.local, answer)

\* What run checks of the configuration it has loaded.
RunAccepts(c, answer) ==
    /\ ValidSchoolOrigin(c.origin)
    /\ ValidWebSocketURL(c.ws, SchoolOrigin(c.origin))
    /\ ValidBaseURL(c.local, answer)

\* run starts.
Run ==
    /\ config # None
    /\ at = "file"
    /\ \E answer \in Answers : RunAccepts(config, answer)
    /\ at' = "running"
    /\ UNCHANGED <<configVars, peer, now, request, reached>>

\* Dial connects to the gateway and sends the credential in its handshake.
Dial ==
    /\ at = "running"
    /\ DialAccepts(config.ws, config.token)
    /\ at' = "serving"
    /\ peer' = Endpoint(config.ws)
    /\ UNCHANGED <<configVars, now, request, reached>>

\* unpair sends the credential to the school, whether run is running or not.
Revoke ==
    /\ config # None
    /\ ValidSchoolOrigin(config.origin)
    /\ config.token = "plain"
    /\ peer' = Endpoint(config.origin)
    /\ UNCHANGED <<configVars, at, now, request, reached>>

\* The read loop accepts a request.
Accept ==
    /\ at = "serving"
    /\ request = None
    /\ \E r \in Requests : ValidRequest(r) /\ request' = r
    /\ UNCHANGED <<configVars, at, peer, now, reached>>

\* The request waits in the queue.
Tick ==
    /\ now < MaxTime
    /\ now' = now + 1
    /\ UNCHANGED <<configVars, at, peer, request, reached>>

ForwardAccepts(r) == ValidRequest(r) /\ ValidMethod(r)

\* Forward checks it again and connects to the model API.
Forward ==
    /\ request # None
    /\ ForwardAccepts(request)
    /\ \E answer \in Answers : \E up \in SUBSET DOMAIN answer : \E i \in DOMAIN answer :
          /\ ConnectsTo(answer, up, i)
          /\ reached' = answer[i]
    /\ request' = None
    /\ UNCHANGED <<configVars, at, peer, now>>

\* Forward refuses it, or finds no address to connect to.
ForwardFails ==
    /\ request # None
    /\ request' = None
    /\ UNCHANGED <<configVars, at, peer, now, reached>>

Next == Pair \/ Edit \/ Run \/ Dial \/ Revoke \/ Accept \/ Tick \/ Forward \/ ForwardFails

Spec == Init /\ [][Next]_vars

-----------------------------------------------------------------------------
(***************************************************************************)
(* Properties                                                              *)
(***************************************************************************)

TypeOK ==
    /\ config \in [origin : Origins, ws : Gateways, local : LocalURLs, token : Tokens] \cup {None}
    /\ edited \in BOOLEAN
    /\ at \in {"file", "running", "serving"}
    /\ peer \in ((Hosts \cup {NoHost}) \X Ports) \cup {None}
    /\ now \in 0 .. MaxTime
    /\ request \in Requests \cup {None}
    /\ reached \in Addresses \cup {None}
    /\ config = None => at = "file" /\ peer = None
    /\ config # None /\ ~edited =>
          /\ config.origin.path = "" /\ config.origin.padded = "no"
          /\ config.local.path = "/v1" /\ config.local.padded = "no"

\* The device credential goes to the school's own host and port only, by the
\* gateway's URL as well as by the school's, whatever is in config.json.
CredentialStaysAtSchool == peer # None => peer = Endpoint(config.origin)

\* With what pair has saved, run and Dial come to ask for the WebSocket endpoint,
\* and Revoke accepts it: the checks of pair are as strict as the later ones, with
\* two exceptions.  Enroll looks at the length of a credential only, and trims the
\* WebSocket URL for its check but not for config.json.
PairedConfigWorks ==
    config # None /\ ~edited =>
        /\ \E answer \in Answers : RunAccepts(config, answer)
        /\ DialAccepts(config.ws, config.token) /\ Requested(config.ws) = "/ws"
              <=> config.ws.padded = "no" /\ config.token = "plain"

\* README: "DNS is checked again for every local connection; any non-loopback
\* address is rejected".
LoopbackOnly == reached # "outside"

\* Before it connects Forward checks a request that the read loop has accepted once
\* more, and net/http checks it after that.  They refuse it for two reasons only:
\* its deadline has passed in the queue, or its method has spaces around it, which
\* ValidateRequest trims and http.NewRequest does not.
RefusedForTimeOrPadding ==
    request # None /\ ~ForwardAccepts(request) =>
        \/ request.deadline # 0 /\ request.deadline <= now
        \/ request.padded
=============================================================================
