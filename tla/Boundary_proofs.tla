--------------------------- MODULE Boundary_proofs ---------------------------
(***************************************************************************)
(* What the checks of the companion are worth for any hosts, ports and     *)
(* times.                                                                  *)
(***************************************************************************)
EXTENDS Boundary, TLAPS

Configs == [origin : Origins, ws : Gateways, local : LocalURLs, token : Tokens]

-----------------------------------------------------------------------------
(***************************************************************************)
(* What the checks of URLs are worth                                       *)
(***************************************************************************)

\* The origin that is saved is one, and normalising it again changes nothing.
LEMMA SchoolOriginIsOrigin ==
  ASSUME NEW u \in Origins
  PROVE  /\ SchoolOrigin(u) \in Origins
         /\ SchoolOrigin(SchoolOrigin(u)) = SchoolOrigin(u)
         /\ Endpoint(SchoolOrigin(u)) = Endpoint(u)
         /\ ValidSchoolOrigin(u) => ValidSchoolOrigin(SchoolOrigin(u))
  BY DEF SchoolOrigin, Origins, URLs, Endpoint, ValidSchoolOrigin

\* A WebSocket URL that passes its check leads to the host and port of the
\* school.
LEMMA ValidMeansSameEndpoint ==
  ASSUME NEW u \in Gateways, NEW origin \in Origins,
         ValidWebSocketURL(u, SchoolOrigin(origin))
  PROVE  Endpoint(u) = Endpoint(origin)
  BY DEF SchoolOrigin, Origins, Gateways, URLs, Endpoint, ValidWebSocketURL

\* The one that Enroll fills in is a WebSocket URL.
LEMMA DerivedIsGateway ==
  ASSUME NEW u \in Origins, ValidSchoolOrigin(u)
  PROVE  DerivedWebSocketURL(SchoolOrigin(u)) \in Gateways
  BY DEF DerivedWebSocketURL, SchoolOrigin, Origins, Gateways, URLs, ValidSchoolOrigin

\* The local URL that is saved passes the check that the one typed has passed.
LEMMA BaseURLStaysValid ==
  ASSUME NEW u \in LocalURLs, NEW answer
  PROVE  /\ BaseURL(u) \in LocalURLs
         /\ ValidBaseURL(u, answer) => ValidBaseURL(BaseURL(u), answer)
  BY DEF BaseURL, LocalURLs, URLs, ValidBaseURL

LEMMA EndpointType ==
  ASSUME NEW u, u \in Origins \/ u \in Gateways
  PROVE  Endpoint(u) \in (Hosts \cup {NoHost}) \X Ports
  BY BoundaryAssumption DEF Endpoint, Origins, Gateways, URLs

-----------------------------------------------------------------------------
(***************************************************************************)
(* The credential                                                          *)
(***************************************************************************)

\* From the start of run on, the WebSocket URL of its configuration is one of
\* the school.
CredentialInv ==
    /\ config \in Configs \cup {None}
    /\ at \in {"file", "running", "serving"}
    /\ config = None => at = "file" /\ peer = None
    /\ at # "file" => ValidWebSocketURL(config.ws, SchoolOrigin(config.origin))
    /\ CredentialStaysAtSchool

LEMMA PairSavesConfig ==
  ASSUME Pair
  PROVE  config' \in Configs
<1>1. PICK school \in Origins, local \in LocalURLs, answer \in Answers, token \in Tokens :
          /\ ValidSchoolOrigin(school)
          /\ \E ws \in Gateways \cup {DerivedWebSocketURL(SchoolOrigin(school))} :
                config' = [origin |-> SchoolOrigin(school), ws |-> ws,
                           local |-> BaseURL(local), token |-> token]
  BY DEF Pair
<1>2. PICK ws \in Gateways : config' = [origin |-> SchoolOrigin(school), ws |-> ws,
                                        local |-> BaseURL(local), token |-> token]
  BY <1>1, DerivedIsGateway
<1> QED
  BY <1>2, SchoolOriginIsOrigin, BaseURLStaysValid DEF Configs

\* The credential goes to the school's own host and port, for all of them, and
\* whatever one edit of config.json has made of it.
THEOREM CredentialSafe == Spec => []CredentialStaysAtSchool
<1>1. Init => CredentialInv
  BY DEF Init, CredentialInv, CredentialStaysAtSchool
<1>2. CredentialInv /\ [Next]_vars => CredentialInv'
  <2> SUFFICES ASSUME CredentialInv, [Next]_vars PROVE CredentialInv'
    OBVIOUS
  <2> USE DEF CredentialInv, CredentialStaysAtSchool
  <2>1. CASE Pair
    BY <2>1, PairSavesConfig DEF Pair
  <2>2. CASE Edit
    <3>1. config' \in Configs
      BY <2>2 DEF Edit, Configs
    <3> QED
      BY <2>2, <3>1 DEF Edit
  <2>3. CASE Run
    BY <2>3 DEF Run, RunAccepts, configVars
  <2>4. CASE Dial
    <3>1. config \in Configs
      BY <2>4 DEF Dial
    <3>2. Endpoint(config.ws) = Endpoint(config.origin)
      BY <2>4, <3>1, ValidMeansSameEndpoint DEF Dial, Configs
    <3> QED
      BY <2>4, <3>1, <3>2 DEF Dial, configVars
  <2>5. CASE Revoke
    BY <2>5 DEF Revoke, configVars
  <2>6. CASE Accept \/ Tick \/ Forward \/ ForwardFails
    BY <2>6 DEF Accept, Tick, Forward, ForwardFails, configVars
  <2>7. CASE UNCHANGED vars
    BY <2>7 DEF vars, configVars
  <2> QED
    BY <2>1, <2>2, <2>3, <2>4, <2>5, <2>6, <2>7 DEF Next
<1>3. CredentialInv => CredentialStaysAtSchool
  BY DEF CredentialInv
<1> QED
  BY <1>1, <1>2, <1>3, PTL DEF Spec

-----------------------------------------------------------------------------
(***************************************************************************)
(* Local connections and requests                                          *)
(***************************************************************************)

\* No connection of the model API leaves the machine, whatever the DNS answers
\* and changes its mind to.
THEOREM LocalOnly == Spec => []LoopbackOnly
<1>1. Init => LoopbackOnly
  BY BoundaryAssumption DEF Init, LoopbackOnly
<1>2. LoopbackOnly /\ [Next]_vars => LoopbackOnly'
  <2> SUFFICES ASSUME LoopbackOnly, [Next]_vars PROVE LoopbackOnly'
    OBVIOUS
  <2> USE DEF LoopbackOnly
  <2>1. CASE Forward
    <3>1. PICK answer \in Answers : \E up \in SUBSET DOMAIN answer : \E i \in DOMAIN answer :
              /\ ConnectsTo(answer, up, i)
              /\ reached' = answer[i]
      BY <2>1 DEF Forward
    <3>2. PICK i \in DOMAIN answer :
              /\ \A j \in 1 .. i : answer[j] = "loopback"
              /\ reached' = answer[i]
      BY <3>1 DEF ConnectsTo
    <3>3. i \in 1 .. i
      BY <3>2 DEF Answers, Addresses
    <3> QED
      BY <3>2, <3>3
  <2>2. CASE ~Forward
    BY <2>2 DEF Next, Pair, Edit, Run, Dial, Revoke, Accept, Tick, ForwardFails, vars
  <2> QED
    BY <2>1, <2>2
<1> QED
  BY <1>1, <1>2, PTL DEF Spec

\* What is left of ValidRequest while time passes.
StillValid(r) ==
    /\ ValidRequest([r EXCEPT !.deadline = 0])
    /\ r.deadline = 0 \/ r.deadline <= now + Window

RequestInv ==
    /\ now \in Nat
    /\ request \in Requests \cup {None}
    /\ request # None => StillValid(request)

\* A request that the read loop has accepted is refused by Forward's own checks
\* only if its deadline has passed or its method is padded, however long it waited.
THEOREM ForwardAgreesButForTimeAndPadding == Spec => []RefusedForTimeOrPadding
<1> USE BoundaryAssumption
<1>1. Init => RequestInv
  BY DEF Init, RequestInv
<1>2. RequestInv /\ [Next]_vars => RequestInv'
  <2> SUFFICES ASSUME RequestInv, [Next]_vars PROVE RequestInv'
    OBVIOUS
  <2>1. CASE Accept
    <3>1. PICK r \in Requests : ValidRequest(r) /\ request' = r
      BY <2>1 DEF Accept
    <3>2. StillValid(r) /\ now' = now
      BY <2>1, <3>1 DEF Accept, StillValid, ValidRequest, DeadlineOK, Requests
    <3> QED
      BY <3>1, <3>2 DEF RequestInv, StillValid, ValidRequest, DeadlineOK, BodyOK
  <2>2. CASE Tick
    BY <2>2 DEF Tick, RequestInv, StillValid, ValidRequest, DeadlineOK, Requests
  <2>3. CASE Forward \/ ForwardFails
    BY <2>3 DEF Forward, ForwardFails, RequestInv
  <2>4. CASE Pair \/ Edit \/ Run \/ Dial \/ Revoke \/ UNCHANGED vars
    BY <2>4 DEF Pair, Edit, Run, Dial, Revoke, vars, RequestInv, StillValid,
       ValidRequest, DeadlineOK
  <2> QED
    BY <2>1, <2>2, <2>3, <2>4 DEF Next
<1>3. RequestInv => RefusedForTimeOrPadding
  BY DEF RequestInv, StillValid, RefusedForTimeOrPadding, ForwardAccepts, ValidMethod,
     ValidRequest, DeadlineOK, Requests
<1> QED
  BY <1>1, <1>2, <1>3, PTL DEF Spec

-----------------------------------------------------------------------------
(***************************************************************************)
(* What pair has saved                                                     *)
(***************************************************************************)

\* Every check of pair still holds of an unedited config.json.
PairedInv ==
    config # None /\ ~edited =>
        /\ config \in Configs
        /\ config.origin.path = "" /\ config.origin.padded = "no"
        /\ config.local.path = "/v1" /\ config.local.padded = "no"
        /\ \E answer \in Answers : RunAccepts(config, answer)

LEMMA PairSavesNormal ==
  ASSUME Pair, config' # None
  PROVE  /\ config'.origin.path = "" /\ config'.origin.padded = "no"
         /\ config'.local.path = "/v1" /\ config'.local.padded = "no"
         /\ \E answer \in Answers : RunAccepts(config', answer)
<1>1. PICK school \in Origins, local \in LocalURLs, answer \in Answers, token \in Tokens :
          /\ ValidSchoolOrigin(school)
          /\ ValidBaseURL(local, answer)
          /\ \E ws \in Gateways \cup {DerivedWebSocketURL(SchoolOrigin(school))} :
                /\ ValidWebSocketURL(ws, SchoolOrigin(school))
                /\ config' = [origin |-> SchoolOrigin(school), ws |-> ws,
                              local |-> BaseURL(local), token |-> token]
  BY DEF Pair
<1>2. PICK ws \in Gateways :
          /\ ValidWebSocketURL(ws, SchoolOrigin(school))
          /\ config' = [origin |-> SchoolOrigin(school), ws |-> ws,
                        local |-> BaseURL(local), token |-> token]
  BY <1>1, DerivedIsGateway
<1>3. /\ config'.origin = SchoolOrigin(school) /\ config'.ws = ws
      /\ config'.local = BaseURL(local)
  BY <1>2
<1>4. RunAccepts(config', answer)
  BY <1>1, <1>2, <1>3, SchoolOriginIsOrigin, BaseURLStaysValid DEF RunAccepts
<1>5. /\ SchoolOrigin(school).path = "" /\ SchoolOrigin(school).padded = "no"
      /\ BaseURL(local).path = "/v1" /\ BaseURL(local).padded = "no"
  BY DEF SchoolOrigin, BaseURL, Origins, LocalURLs, URLs
<1> QED
  BY <1>3, <1>4, <1>5

LEMMA PairedStep == TypeOK /\ PairedInv /\ [Next]_vars => PairedInv'
<1> SUFFICES ASSUME TypeOK, PairedInv, [Next]_vars PROVE PairedInv'
  OBVIOUS
<1>1. CASE Pair
  BY <1>1, PairSavesConfig, PairSavesNormal DEF PairedInv
<1>2. CASE Edit
  BY <1>2 DEF Edit, PairedInv
<1>3. CASE UNCHANGED configVars
  BY <1>3 DEF configVars, PairedInv, RunAccepts
<1> QED
  BY <1>1, <1>2, <1>3
  DEF Next, Run, Dial, Revoke, Accept, Tick, Forward, ForwardFails, vars

\* A lookup returns addresses.
LEMMA AnswerHoldsAddresses ==
  ASSUME NEW answer \in Answers, NEW i \in DOMAIN answer
  PROVE  answer[i] \in Addresses
<1>1. CASE answer = <<>>
  BY <1>1
<1>2. ASSUME NEW a \in Addresses, answer = <<a>> PROVE answer[i] \in Addresses
  BY <1>2
<1>3. ASSUME NEW a \in Addresses, NEW b \in Addresses, answer = <<a, b>>
      PROVE  answer[i] \in Addresses
  <2>1. i = 1 \/ i = 2
    BY <1>3
  <2> QED
    BY <1>3, <2>1
<1>4. /\ answer = <<>> \/ answer \in {<<a>> : a \in Addresses}
         \/ answer \in Addresses \X Addresses
  BY DEF Answers
<1>5. answer \in Addresses \X Addresses => answer = <<answer[1], answer[2]>>
                     /\ answer[1] \in Addresses /\ answer[2] \in Addresses
  OBVIOUS
<1> QED
  BY <1>1, <1>2, <1>3, <1>4, <1>5

\* Every step keeps the types.
LEMMA BoundaryTypeStep == TypeOK /\ PairedInv /\ [Next]_vars => TypeOK'
<1> SUFFICES ASSUME TypeOK, PairedInv, [Next]_vars PROVE TypeOK'
  OBVIOUS
<1>0. PairedInv'
  BY PairedStep
<1>t. Tick => now' \in 0 .. MaxTime
  <2>1. now \in 0 .. MaxTime /\ MaxTime \in Nat
    BY BoundaryAssumption DEF TypeOK
  <2> QED
    BY <2>1, SMT DEF Tick
<1> USE BoundaryAssumption DEF TypeOK
<1>1. CASE Pair
  <2>1. config' \in Configs
    BY <1>1, PairSavesConfig
  <2> QED
    BY <1>0, <1>1, <2>1 DEF Pair, PairedInv, Configs
<1>2. CASE Edit
  <2>1. config' \in Configs
    BY <1>2 DEF Edit, Configs
  <2> QED
    BY <1>2, <2>1 DEF Edit, Configs
<1>3. CASE Run
  BY <1>3 DEF Run, configVars
<1>4. CASE Dial \/ Revoke
  <2>1. config \in Configs
    BY <1>4 DEF Dial, Revoke, Configs
  <2>2. config.ws \in Gateways /\ config.origin \in Origins
    BY <2>1 DEF Configs
  <2>3. config.ws.host # NoHost \/ config.ws.host = NoHost
    OBVIOUS
  <2>4. peer' = Endpoint(config.ws) \/ peer' = Endpoint(config.origin)
    BY <1>4 DEF Dial, Revoke
  <2>5. peer' \in (Hosts \cup {NoHost}) \X Ports
    BY <2>2, <2>4, EndpointType
  <2> QED
    BY <1>4, <2>1, <2>5 DEF Dial, Revoke, configVars
<1>5. CASE Accept
  BY <1>5 DEF Accept, configVars
<1>6. CASE Tick
  BY <1>t, <1>6 DEF Tick, configVars
<1>7. CASE Forward
  <2>1. PICK answer \in Answers : \E i \in DOMAIN answer : reached' = answer[i]
    BY <1>7 DEF Forward
  <2>2. PICK i \in DOMAIN answer : reached' = answer[i]
    BY <2>1
  <2>3. reached' \in Addresses
    BY <2>2, AnswerHoldsAddresses
  <2> QED
    BY <1>7, <2>3 DEF Forward, configVars
<1>8. CASE ForwardFails
  BY <1>8 DEF ForwardFails, configVars
<1>9. CASE UNCHANGED vars
  BY <1>9 DEF vars, configVars
<1> QED
  BY <1>1, <1>2, <1>3, <1>4, <1>5, <1>6, <1>7, <1>8, <1>9 DEF Next

\* The types, and what pair has checked, hold together.
THEOREM BoundaryInductive == Spec => [](TypeOK /\ PairedInv)
<1>1. Init => TypeOK /\ PairedInv
  <2> SUFFICES ASSUME Init PROVE TypeOK /\ PairedInv
    OBVIOUS
  <2>1. now \in 0 .. MaxTime
    BY BoundaryAssumption, SMT DEF Init
  <2>2. TypeOK
    BY <2>1 DEF Init, TypeOK
  <2>3. PairedInv
    BY DEF Init, PairedInv
  <2> QED
    BY <2>2, <2>3
<1>2. TypeOK /\ PairedInv /\ [Next]_vars => (TypeOK /\ PairedInv)'
  BY PairedStep, BoundaryTypeStep
<1> QED
  BY <1>1, <1>2, PTL DEF Spec

\* What is saved is normalised, and what is sent and reached is an endpoint.
THEOREM BoundaryTypeCorrect == Spec => []TypeOK
  BY BoundaryInductive, PTL

\* run and Dial accept what pair has saved, for all hosts and ports; Dial with
\* the exceptions that Enroll leaves open.
THEOREM SavedConfigWorks == Spec => []PairedConfigWorks
<1>1. PairedInv => PairedConfigWorks
  <2> SUFFICES ASSUME PairedInv, config # None, ~edited
               PROVE  /\ \E answer \in Answers : RunAccepts(config, answer)
                      /\ DialAccepts(config.ws, config.token) /\ Requested(config.ws) = "/ws"
                            <=> config.ws.padded = "no" /\ config.token = "plain"
    BY DEF PairedConfigWorks
  <2>1. PICK answer \in Answers : RunAccepts(config, answer)
    BY DEF PairedInv
  <2>2. config.origin \in Origins /\ config.ws \in Gateways
    BY DEF PairedInv, Configs
  <2>3. /\ config.ws.scheme = "wss" /\ config.ws.host # NoHost /\ ~config.ws.extra
        /\ config.ws.path = "/ws" /\ config.ws.padded \in {"no", "front", "back"}
    BY <2>1, <2>2 DEF RunAccepts, ValidSchoolOrigin, ValidWebSocketURL, SchoolOrigin,
                      Origins, Gateways, URLs
  <2> QED
    BY <2>1, <2>3 DEF DialAccepts, Requested
<1> QED
  BY BoundaryInductive, <1>1, PTL
=============================================================================
