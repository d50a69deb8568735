--------------------------- MODULE StartupProofs ---------------------------
(***************************************************************************)
(* Proofs about Startup, for any configurations and command lines.  The    *)
(* invariant says what each phase of main has established, and what an     *)
(* answer to the poll side says of the two tokens.                         *)
(***************************************************************************)
EXTENDS Startup, TLAPS

Early == {"args", "config", "upstreams"}
Built == {"spawning", "binding"} \cup Serving
AtWork == {"binding"} \cup Serving

UpstreamsBuilt ==
  /\ DOMAIN loaded = DOMAIN config.upstreams
  /\ \A i \in DOMAIN loaded :
       /\ ~UpstreamFails(config.upstreams[i])
       /\ loaded[i] = Upstream(config.upstreams[i])

AnswersRight ==
  /\ DOMAIN answers \subseteq DOMAIN loaded
  /\ \A i \in DOMAIN answers :
       /\ loaded[i] = Upstream(config.upstreams[i])
       /\ answers[i] \in {"authorized", "unauthorized"} =>
            /\ config.queue # Unset
            /\ answers[i] = "authorized" <=>
                 /\ config.upstreams[i].token.text = config.queue.text
                 /\ config.queue.text \notin Opaque

Inv ==
  /\ TypeOK
  /\ running # {} => phase \in AtWork
  /\ phase \in {"state"} \cup Built => UpstreamsBuilt
  /\ phase \in Built => ~StateFails /\ hash = Hash
  /\ phase \in Early \cup {"state", "spawning"} => answers = <<>>
  /\ AnswersRight

-----------------------------------------------------------------------------
LEMMA InitInv == Init => Inv
<1> SUFFICES ASSUME Init PROVE Inv
  OBVIOUS
<1> USE ConfigsAssumption, BoundsAssumption DEF Init
<1>1. TypeOK
  BY DEF TypeOK
<1>2. AnswersRight
  BY DEF AnswersRight
<1> QED
  BY <1>1, <1>2 DEF Inv, AtWork, Built, Early, Serving

\* An answer is right if its token is compared with the trimmed one.
LEMMA AnswerRight ==
  ASSUME hash = Hash, NEW i, loaded[i] = Upstream(config.upstreams[i]),
         AuthAnswer(loaded[i].token) \in {"authorized", "unauthorized"}
  PROVE  /\ config.queue # Unset
         /\ AuthAnswer(loaded[i].token) = "authorized" <=>
              /\ config.upstreams[i].token.text = config.queue.text
              /\ config.queue.text \notin Opaque
BY DEF Hash, Upstream, AuthAnswer, Readable, Trimmed

LEMMA StepInv == Inv /\ [Next]_vars => Inv'
<1> SUFFICES ASSUME Inv, [Next]_vars PROVE Inv'
  OBVIOUS
<1> USE ConfigsAssumption, BoundsAssumption
<1> USE DEF Inv, TypeOK, Early, Built, AtWork, Serving
<1>1. CASE Args
  BY <1>1 DEF Args, Exit, UpstreamsBuilt, AnswersRight
<1>2. CASE Load
  <2>1. answers = <<>> /\ answers' = <<>> /\ running' = {}
    BY <1>2 DEF Load, Exit
  <2>2. AnswersRight'
    BY <2>1 DEF AnswersRight
  <2> QED
    BY <1>2, <2>1, <2>2 DEF Load, Exit
<1>3. CASE LoadUpstreams
  <2>1. answers = <<>> /\ answers' = <<>> /\ running' = {}
    BY <1>3 DEF LoadUpstreams, Exit
  <2>2. AnswersRight'
    BY <2>1 DEF AnswersRight
  <2>3. phase' = "state" => UpstreamsBuilt'
    BY <1>3 DEF LoadUpstreams, Exit, UpstreamsBuilt, UpstreamFails, Upstream
  <2>4. phase' \in {"state", "exited"}
    BY <1>3 DEF LoadUpstreams, Exit
  <2> QED
    BY <1>3, <2>1, <2>2, <2>3, <2>4 DEF LoadUpstreams, Exit
<1>4. CASE BuildState
  BY <1>4 DEF BuildState, Exit, UpstreamsBuilt, AnswersRight, StateFails, ProviderFails, BackendFails,
              UpstreamFails, Upstream, Hash
<1>5. CASE Spawn
  <2>1. UpstreamsBuilt /\ UpstreamsBuilt'
    BY <1>5 DEF Spawn, UpstreamsBuilt, UpstreamFails, Upstream
  <2>2. AnswersRight'
    BY <1>5, <2>1 DEF Spawn, AnswersRight, UpstreamsBuilt, Upstream
  <2> QED
    BY <1>5, <2>1, <2>2 DEF Spawn, StateFails, ProviderFails, BackendFails, Hash
<1>6. CASE Bind
  BY <1>6 DEF Bind, Exit, UpstreamsBuilt, AnswersRight, StateFails, ProviderFails, BackendFails,
              UpstreamFails, Upstream, Hash
<1>7. CASE Finish
  BY <1>7 DEF Finish, Exit, AnswersRight, Upstream
<1>8. CASE Accept \/ Answer
  BY <1>8 DEF Accept, Answer, UpstreamsBuilt, AnswersRight, StateFails, ProviderFails, BackendFails,
              UpstreamFails, Upstream, Hash
<1>9. CASE Interrupt
  BY <1>9 DEF Interrupt, Exit, UpstreamsBuilt, AnswersRight, StateFails, ProviderFails, BackendFails,
              UpstreamFails, Upstream, Hash
<1>10. ASSUME NEW i \in running, Poll(i) PROVE Inv'
  <2>1. phase \in AtWork /\ hash = Hash
    BY DEF AtWork
  <2>2. UpstreamsBuilt /\ UpstreamsBuilt'
    BY <1>10, <2>1 DEF Poll, UpstreamsBuilt, UpstreamFails, Upstream
  <2>3. AnswersRight'
    <3> SUFFICES ASSUME NEW j \in DOMAIN answers
                 PROVE  /\ loaded[j] = Upstream(config.upstreams[j])
                        /\ answers'[j] \in {"authorized", "unauthorized"} =>
                             /\ config.queue # Unset
                             /\ answers'[j] = "authorized" <=>
                                  /\ config.upstreams[j].token.text = config.queue.text
                                  /\ config.queue.text \notin Opaque
      BY <1>10 DEF Poll, AnswersRight, Upstream
    <3>1. CASE j # i
      BY <1>10, <3>1 DEF Poll, AnswersRight
    <3>2. CASE j = i /\ phase # "serving"
      BY <1>10, <3>2 DEF Poll, AnswersRight
    <3>3. CASE j = i /\ phase = "serving"
      <4>1. answers'[j] = AuthAnswer(loaded[j].token)
        BY <1>10, <3>3 DEF Poll
      <4>2. loaded[j] = Upstream(config.upstreams[j])
        BY DEF AnswersRight
      <4> QED
        BY <2>1, <4>1, <4>2, AnswerRight
    <3> QED
      BY <3>1, <3>2, <3>3
  <2> QED
    BY <1>10, <2>1, <2>2, <2>3 DEF Poll, StateFails, ProviderFails, BackendFails, Hash
<1>11. CASE UNCHANGED vars
  BY <1>11 DEF vars, UpstreamsBuilt, AnswersRight, StateFails, ProviderFails, BackendFails,
               UpstreamFails, Upstream, Hash
<1> QED
  BY <1>1, <1>2, <1>3, <1>4, <1>5, <1>6, <1>7, <1>8, <1>9, <1>10, <1>11 DEF Next, Main

THEOREM Invariance == Spec => []Inv
<1>1. Init => Inv
  BY InitInv
<1>2. Inv /\ [Next]_vars => Inv'
  BY StepInv
<1> QED
  BY <1>1, <1>2, PTL DEF Spec

-----------------------------------------------------------------------------
\* What http_options makes of a key.
LEMMA OptionsOf ==
  ASSUME NEW own, Inv
  PROVE  LET o == HttpOptions(own, config.http)
         IN  /\ o.proxy = OrElse(own.proxy, config.http.proxy)
             /\ o.ca = OrElse(own.ca, config.http.ca)
             /\ o.insecure = OrElse(own.insecure, config.http.insecure)
<1>1. DOMAIN config.http = {"proxy", "ca", "insecure"}
  BY ConfigsAssumption DEF Inv, TypeOK, IsConfig
<1> QED
  BY <1>1 DEF HttpOptions

(* Whatever is wrong with a credential or an option, the program ends      *)
(* before it polls or serves (main, and what it calls to build the state). *)
THEOREM StartFailsFast == Spec => []FailsFast
<1>1. Inv => FailsFast
  <2> SUFFICES ASSUME Inv, running # {} \/ phase \in Serving PROVE FailsFast
    BY DEF FailsFast
  <2>1. UpstreamsBuilt /\ ~StateFails
    BY DEF Inv, Built, AtWork, Serving
  <2>2. ASSUME NEW i \in DOMAIN config.upstreams
        PROVE  LET own == config.upstreams[i].http
               IN  /\ Good(config.upstreams[i].token)
                   /\ Reachable(own)
                   /\ own.proxy = Unset => config.http.proxy # Malformed
                   /\ own.ca = Unset => config.http.ca \notin {Missing, Broken}
    <3> DEFINE own == config.upstreams[i].http
               o == HttpOptions(own, config.http)
    <3>1. ~TokenFails(config.upstreams[i].token) /\ ~ClientFails(o)
      BY <2>1 DEF UpstreamsBuilt, UpstreamFails
    <3>2. o.proxy = OrElse(own.proxy, config.http.proxy) /\ o.ca = OrElse(own.ca, config.http.ca)
      BY OptionsOf
    <3> HIDE DEF own, o
    <3>3. Reachable(own) /\ (own.proxy = Unset => config.http.proxy # Malformed)
                        /\ (own.ca = Unset => config.http.ca \notin {Missing, Broken})
      BY <3>1, <3>2, ValuesAssumption DEF ClientFails, InUse, OrElse, Reachable
    <3> QED
      BY <3>1, <3>3 DEF TokenFails, Trimmed, Good, own
  <2>3. ASSUME NEW a \in config.apps, a.kind # "log"
        PROVE  a.key \notin {Missing, Broken} /\ Reachable(config.http)
    BY <2>1, <2>3, ValuesAssumption DEF StateFails, ProviderFails, BackendFails, ClientFails, InUse, Reachable
  <2>4. config.queue = Unset \/ Good(config.queue)
    BY <2>1 DEF StateFails, TokenFails, Trimmed, Good
  <2> QED
    BY <2>2, <2>3, <2>4 DEF FailsFast
<1> QED
  BY <1>1, Invariance, PTL

(* Each upstream is reached over its own proxy and certificates where it   *)
(* names any, directly where it opts out, as the top level says otherwise  *)
(* (http_options, http_client).                                            *)
THEOREM UpstreamsReachedAsConfigured == Spec => []ReachedAsConfigured
<1>1. Inv => ReachedAsConfigured
  <2> SUFFICES ASSUME Inv, NEW i \in running
               PROVE  Reached(loaded[i].client, config.upstreams[i].http, config.http)
    BY DEF ReachedAsConfigured
  <2> DEFINE own == config.upstreams[i].http
             top == config.http
             o == HttpOptions(own, top)
  <2>1. loaded[i].client = Client(o)
    BY DEF Inv, TypeOK, AtWork, Built, UpstreamsBuilt, Upstream
  <2>2. /\ o.proxy = OrElse(own.proxy, top.proxy)
        /\ o.ca = OrElse(own.ca, top.ca)
        /\ o.insecure = OrElse(own.insecure, top.insecure)
    BY OptionsOf
  <2>3. top.insecure \in BOOLEAN /\ own.insecure \in BOOLEAN \cup {Unset}
    BY ConfigsAssumption DEF Inv, TypeOK, IsConfig, AtWork, Built, UpstreamsBuilt
  <2> HIDE DEF own, top, o
  <2>4. /\ own.proxy = Empty => Client(o).proxy = Unset
        /\ own.proxy = Unset => {Client(o).proxy} \ {Unset} = {top.proxy} \ {Unset, Empty}
        /\ own.proxy \notin {Unset, Empty} => Client(o).proxy = own.proxy
    BY <2>2, ValuesAssumption DEF Client, InUse, OrElse
  <2>5. /\ own.ca = Empty => Client(o).roots = {}
        /\ own.ca = Unset => Client(o).roots = {top.ca} \ {Unset, Empty}
        /\ own.ca \notin {Unset, Empty} => Client(o).roots = {own.ca}
    BY <2>2, ValuesAssumption DEF Client, InUse, OrElse
  <2>6. Client(o).verify = ~o.insecure
    BY DEF Client
  <2>7. CASE own.insecure = Unset
    BY <2>2, <2>4, <2>5, <2>6, <2>7, <2>1, ValuesAssumption DEF Reached, OrElse, own, top
  <2>8. CASE own.insecure = TRUE
    BY <2>2, <2>4, <2>5, <2>6, <2>8, <2>1, ValuesAssumption DEF Reached, OrElse, own, top
  <2>9. CASE own.insecure = FALSE
    BY <2>2, <2>4, <2>5, <2>6, <2>9, <2>1, ValuesAssumption DEF Reached, OrElse, own, top
  <2> QED
    BY <2>3, <2>7, <2>8, <2>9
<1> QED
  BY <1>1, Invariance, PTL

(* A poll is answered 401 or not just as the two token files agree         *)
(* (Upstream::load, QueueState::new, queue_auth).                          *)
THEOREM TokensAgree == Spec => []TokensMeet
<1>1. Inv => TokensMeet
  BY DEF Inv, AnswersRight, TokensMeet
<1> QED
  BY <1>1, Invariance, PTL
=============================================================================
