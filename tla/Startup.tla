------------------------------ MODULE Startup ------------------------------
(***************************************************************************)
(* Start and end of the program (main of src/src/main.rs): the             *)
(* configuration is loaded, everything it names is built (Upstream::load,  *)
(* AppState::new, Provider::new, QueueState::new, http_client), the tasks  *)
(* of the poll side are spawned, and the server runs until it is told to   *)
(* stop.  While both run, the poll side presents its token to a queue side *)
(* (queue_auth): here to the queue of this very configuration, as the two  *)
(* sides share nothing but the token.                                      *)
(*                                                                         *)
(* A file stands for its content.  The network, the HTTP library and the   *)
(* signal are external.                                                    *)
(***************************************************************************)
EXTENDS Naturals, Sequences

CONSTANTS
  CommandLines,  \* sequences of "-c", "-V" and other arguments
  Configs,       \* what a config file may say; see IsConfig
  Defaults,      \* the configuration of an empty file
  Unset,         \* a key that is not there
  Empty,         \* the empty string
  Missing,       \* a file that is not there
  Malformed,     \* a proxy URL that does not parse
  Broken,        \* a file the program can make nothing of, and the
                 \* certificates in an empty bundle
  Opaque,        \* tokens with other than visible ASCII characters
  MaxOpen        \* bound: requests the server works on at a time

\* http_options of Config and of PollUpstream take the same three keys.
IsConfig(c) ==
  /\ DOMAIN c = {"http", "apps", "upstreams", "queue"}
  /\ DOMAIN c.http = {"proxy", "ca", "insecure"} /\ c.http.insecure \in BOOLEAN
  /\ \A a \in c.apps : DOMAIN a = {"kind", "key", "allowed"}
  /\ \A i \in DOMAIN c.upstreams :
       /\ DOMAIN c.upstreams[i] = {"http", "token"}
       /\ c.upstreams[i].http.insecure \in BOOLEAN \cup {Unset}

ASSUME ConfigsAssumption == Defaults \in Configs /\ \A c \in Configs : IsConfig(c)
ASSUME ValuesAssumption ==
  /\ Unset \notin {Empty, Missing, Malformed, Broken} \cup BOOLEAN
  /\ Empty \notin {Missing, Malformed, Broken}
ASSUME BoundsAssumption == MaxOpen \in Nat

VARIABLES
  phase,    \* where main is
  code,     \* the exit code, or Unset
  args,     \* arguments not yet read
  config,   \* the configuration, once loaded
  loaded,   \* poll side: the upstreams built, each a client and a token
  running,  \* poll side: the upstreams whose task has been spawned
  answers,  \* poll side: the last answer to each
  hash,     \* queue side: the token to compare with, or Unset
  open      \* requests the server is working on

vars == <<phase, code, args, config, loaded, running, answers, hash, open>>

Serving == {"serving", "draining"}

-----------------------------------------------------------------------------
(***************************************************************************)
(* Credentials and HTTP clients.  A definition after "Mistake:" is not     *)
(* part of the model: it is a slip the properties are known to catch when  *)
(* it stands in for the definition after it.                               *)
(***************************************************************************)

\* A token file: text, in whitespace or not.
Trimmed(file) == file.text

TokenFails(file) == Trimmed(file) \in {Missing, Empty}

OrElse(own, inherited) == IF own = Unset THEN inherited ELSE own

\* Mistake: the empty string inherits like a key that is not there.
OptionsUnlessEmpty(own, defaults) ==
  [k \in DOMAIN defaults |-> IF own[k] \in {Unset, Empty} THEN defaults[k] ELSE own[k]]

\* PollUpstream::http_options: each key the upstream's own, or the default.
HttpOptions(own, defaults) == [k \in DOMAIN defaults |-> OrElse(own[k], defaults[k])]

\* http_client: the empty string opts out.
InUse(s) == IF s = Empty THEN Unset ELSE s

ClientFails(o) == InUse(o.proxy) = Malformed \/ InUse(o.ca) \in {Missing, Broken}

Client(o) ==
  [proxy  |-> InUse(o.proxy),
   roots  |-> {InUse(o.ca)} \ {Unset},
   verify |-> ~o.insecure]

\* Upstream::load, with the top-level options as the defaults.
UpstreamFails(u) ==
  ClientFails(HttpOptions(u.http, config.http)) \/ TokenFails(u.token)

Upstream(u) ==
  [client |-> Client(HttpOptions(u.http, config.http)), token |-> Trimmed(u.token)]

\* The constructors of the backends read their key file and build a client;
\* WebPush wants an allow-list first.
BackendFails(a) ==
  \/ a.key \in {Missing, Broken}
  \/ ClientFails(config.http)
  \/ a.kind = "webpush" /\ a.allowed = {}

\* Provider::new; Log needs nothing.
ProviderFails(a) == a.kind # "log" /\ BackendFails(a)

\* AppState::new: the backends, then the queue.
StateFails ==
  \/ \E a \in config.apps : ProviderFails(a)
  \/ config.queue # Unset /\ TokenFails(config.queue)

-----------------------------------------------------------------------------
(***************************************************************************)
(* The way to the server.                                                  *)
(***************************************************************************)
Init ==
  /\ phase = "args"
  /\ code = Unset
  /\ args \in CommandLines
  /\ config = Defaults
  /\ loaded = <<>>
  /\ running = {}
  /\ answers = <<>>
  /\ hash = Unset
  /\ open = 0

Exit(c) == phase' = "exited" /\ code' = c /\ running' = {}

\* config_path, one argument after the other: "-c" takes the next one along.
Args ==
  /\ phase = "args"
  /\ \/ /\ args # <<>> /\ Head(args) = "-c" /\ Len(args) >= 2
        /\ args' = SubSeq(args, 3, Len(args))
        /\ UNCHANGED <<phase, code, running>>
     \/ /\ args # <<>> /\ Head(args) = "-V"
        /\ Exit("success")
        /\ UNCHANGED args
     \/ /\ args # <<>> /\ Head(args) # "-V"
        /\ Head(args) = "-c" => Len(args) = 1
        /\ Exit("usage")
        /\ UNCHANGED args
     \/ /\ args = <<>>
        /\ phase' = "config"
        /\ UNCHANGED <<code, running, args>>
  /\ UNCHANGED <<config, loaded, answers, hash, open>>

\* Config::load: a file that is not there is an empty one; others may be
\* unreadable, no TOML, or say what no configuration says.
Load ==
  /\ phase = "config"
  /\ \/ /\ config' \in Configs
        /\ phase' = "upstreams"
        /\ UNCHANGED <<code, running>>
     \/ Exit("failure") /\ UNCHANGED config
  /\ UNCHANGED <<args, loaded, answers, hash, open>>

LoadUpstreams ==
  /\ phase = "upstreams"
  /\ \/ /\ \E i \in DOMAIN config.upstreams : UpstreamFails(config.upstreams[i])
        /\ Exit("failure")
        /\ UNCHANGED loaded
     \/ /\ \A i \in DOMAIN config.upstreams : ~UpstreamFails(config.upstreams[i])
        /\ loaded' = [i \in DOMAIN config.upstreams |-> Upstream(config.upstreams[i])]
        /\ phase' = "state"
        /\ UNCHANGED <<code, running>>
  /\ UNCHANGED <<args, config, answers, hash, open>>

\* Mistake: the queue side keeps its token as the file has it.
HashUntrimmed ==
  IF config.queue = Unset THEN Unset
  ELSE IF config.queue.padded THEN config.queue
  ELSE config.queue.text

\* QueueState::new.
Hash == IF config.queue = Unset THEN Unset ELSE Trimmed(config.queue)

BuildState ==
  /\ phase = "state"
  /\ \/ StateFails /\ Exit("failure") /\ UNCHANGED hash
     \/ /\ ~StateFails
        /\ hash' = Hash
        /\ phase' = "spawning"
        /\ UNCHANGED <<code, running>>
  /\ UNCHANGED <<args, config, loaded, answers, open>>

\* Mistake: the tasks are spawned as soon as the upstreams are built.
SpawnEarly ==
  /\ phase = "state"
  /\ running' = DOMAIN loaded
  /\ answers' = [i \in DOMAIN loaded |-> "none"]
  /\ UNCHANGED <<phase, code, args, config, loaded, hash, open>>

Spawn ==
  /\ phase = "spawning"
  /\ running' = DOMAIN loaded
  /\ answers' = [i \in DOMAIN loaded |-> "none"]
  /\ phase' = "binding"
  /\ UNCHANGED <<code, args, config, loaded, hash, open>>

\* By now the poll side is at work; the port may be taken.
Bind ==
  /\ phase = "binding"
  /\ \/ phase' = "serving" /\ UNCHANGED <<code, running>>
     \/ Exit("failure")
  /\ UNCHANGED <<args, config, loaded, answers, hash, open>>

-----------------------------------------------------------------------------
(***************************************************************************)
(* At work.                                                                *)
(***************************************************************************)
\* External: "to_str" reads visible ASCII only.
Readable(token) == token \notin Opaque

\* queue_auth: no queue, a token that is not the one, or the queue.
AuthAnswer(token) ==
  IF hash = Unset THEN "not found"
  ELSE IF Readable(token) /\ token = hash THEN "authorized"
  ELSE "unauthorized"

\* The task of an upstream polls; before the server listens it gets no answer.
Poll(i) ==
  /\ i \in running
  /\ answers' = [answers EXCEPT ![i] =
                   IF phase = "serving" THEN AuthAnswer(loaded[i].token) ELSE "none"]
  /\ UNCHANGED <<phase, code, args, config, loaded, running, hash, open>>

\* External, as with_graceful_shutdown has it: no request after the signal.
Accept ==
  /\ phase = "serving"
  /\ open < MaxOpen
  /\ open' = open + 1
  /\ UNCHANGED <<phase, code, args, config, loaded, running, answers, hash>>

Answer ==
  /\ phase \in Serving
  /\ open > 0
  /\ open' = open - 1
  /\ UNCHANGED <<phase, code, args, config, loaded, running, answers, hash>>

\* Control-C.  Until the server listens for it, it ends the process.
Interrupt ==
  /\ phase # "exited"
  /\ \/ phase = "serving" /\ phase' = "draining" /\ UNCHANGED <<code, running>>
     \/ phase = "draining" /\ UNCHANGED <<phase, code, running>>
     \/ phase \notin Serving /\ Exit("killed")
  /\ UNCHANGED <<args, config, loaded, answers, hash, open>>

\* Mistake: main waits for the tasks of the poll side as well.
FinishJoined ==
  /\ phase = "draining"
  /\ open = 0
  /\ running = {}
  /\ Exit("success")
  /\ UNCHANGED <<args, config, loaded, answers, hash, open>>

\* The server has answered what it has accepted; the runtime, and the tasks
\* of the poll side wherever they are, go with main.
Finish ==
  /\ phase = "draining"
  /\ open = 0
  /\ Exit("success")
  /\ UNCHANGED <<args, config, loaded, answers, hash, open>>

Main == Args \/ Load \/ LoadUpstreams \/ BuildState \/ Spawn \/ Bind \/ Finish

Next ==
  \/ Main \/ Accept \/ Answer \/ Interrupt
  \/ \E i \in running : Poll(i)

\* main goes on, and every handler comes to an end: polls by their hold,
\* deliveries by the timeout of the client (15 s).
Fairness == WF_vars(Main) /\ WF_vars(Answer)

Spec == Init /\ [][Next]_vars /\ Fairness

-----------------------------------------------------------------------------
(***************************************************************************)
(* Properties.                                                             *)
(***************************************************************************)
TypeOK ==
  /\ phase \in {"args", "config", "upstreams", "state", "spawning", "binding", "exited"}
             \cup Serving
  /\ code \in {Unset, "success", "failure", "usage", "killed"}
  /\ config \in Configs
  /\ running \subseteq DOMAIN loaded
  /\ open \in 0..MaxOpen

(* The program fails fast: whatever is wrong with a credential or an       *)
(* option anywhere in the configuration, it ends before the poll side      *)
(* fetches a notification (which would hide it from other pollers for a    *)
(* lease) or the server accepts one (the order of main, and the checks of  *)
(* Upstream::load, AppState::new and http_client).                         *)
Good(token) == token.text \notin {Missing, Empty}
Reachable(http) == http.proxy # Malformed /\ http.ca \notin {Missing, Broken}

FailsFast ==
  running # {} \/ phase \in Serving =>
    /\ \A i \in DOMAIN config.upstreams :
         LET own == config.upstreams[i].http
         IN  /\ Good(config.upstreams[i].token)
             /\ Reachable(own)
             /\ own.proxy = Unset => config.http.proxy # Malformed
             /\ own.ca = Unset => config.http.ca \notin {Missing, Broken}
    /\ \A a \in config.apps :
         a.kind # "log" => a.key \notin {Missing, Broken} /\ Reachable(config.http)
    /\ config.queue = Unset \/ Good(config.queue)

(* Each upstream is reached as it is configured: over its own proxy and    *)
(* with its own certificates where it names any, without where it opts     *)
(* out, whatever the top level says, and as the top level says otherwise   *)
(* (http_options of both, http_client).                                    *)
Reached(client, http, top) ==
  /\ http.proxy = Empty => client.proxy = Unset
  /\ http.proxy = Unset => {client.proxy} \ {Unset} = {top.proxy} \ {Unset, Empty}
  /\ http.proxy \notin {Unset, Empty} => client.proxy = http.proxy
  /\ http.ca = Empty => client.roots = {}
  /\ http.ca = Unset => client.roots = {top.ca} \ {Unset, Empty}
  /\ http.ca \notin {Unset, Empty} => client.roots = {http.ca}
  /\ client.verify = (http.insecure = FALSE \/ (http.insecure = Unset /\ ~top.insecure))

ReachedAsConfigured ==
  \A i \in running :
    Reached(loaded[i].client, config.upstreams[i].http, config.http)

(* Two sides whose token files say the same, whatever whitespace there is  *)
(* around it, work together, and with any other token the queue side       *)
(* answers 401; a token of other than visible ASCII never works            *)
(* (Upstream::load, QueueState::new, queue_auth).                          *)
TokensMeet ==
  \A i \in DOMAIN answers :
    answers[i] \in {"authorized", "unauthorized"} =>
      (answers[i] = "authorized" <=>
         /\ config.upstreams[i].token.text = config.queue.text
         /\ config.queue.text \notin Opaque)

(* After the signal the program ends: what it has accepted is answered in  *)
(* finite time, and the tasks of the poll side, which never end, do not    *)
(* hold it up (main).                                                      *)
ShutdownCompletes == phase = "draining" ~> phase = "exited"
=============================================================================
