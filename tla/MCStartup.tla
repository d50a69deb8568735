----------------------------- MODULE MCStartup -----------------------------
(***************************************************************************)
(* Startup instantiated for TLC.  The configurations vary one concern at a *)
(* time: how one upstream is reached, the credentials, the tokens.         *)
(***************************************************************************)
EXTENDS Startup

CONSTANTS top, named, t1, t2, t3, key

Http(proxy, ca, insecure) == [proxy |-> proxy, ca |-> ca, insecure |-> insecure]
Plain == Http(Unset, Unset, FALSE)
Inherits == Http(Unset, Unset, Unset)

Token(text, padded) == [text |-> text, padded |-> padded]
App(kind, k, allowed) == [kind |-> kind, key |-> k, allowed |-> allowed]
Config(http, apps, upstreams, queue) ==
  [http |-> http, apps |-> apps, upstreams |-> upstreams, queue |-> queue]

MCDefaults == Config(Plain, {}, <<>>, Unset)
MCCommandLines ==
  {<<>>, <<"-c", "file">>, <<"-c">>, <<"-V">>, <<"-c", "-V", "-c", "file">>, <<"file">>,
   <<"-c", "file", "-V">>}

\* How one upstream is reached, and what may be wrong with that.
One(http, u) ==
  Config(http, {App("log", Unset, {})}, <<[http |-> u, token |-> Token(t1, FALSE)]>>, Unset)
Reaches ==
  {One(Http(p, c, b), Http(q, d, i)) :
     p, c \in {Unset, top}, b \in BOOLEAN, q, d \in {Unset, Empty, named}, i \in {Unset, TRUE, FALSE}}
WrongProxies ==
  {One(Http(p, Unset, FALSE), Http(q, Unset, Unset)) :
     p \in {Unset, Empty, Malformed}, q \in {Unset, Empty, named, Malformed}}
WrongBundles ==
  {One(Http(Unset, c, FALSE), Http(Unset, d, Unset)) :
     c \in {Unset, Empty, Broken}, d \in {Unset, Empty, named, Missing}}

\* The backends.
Backends ==
  {Config(Http(p, Unset, FALSE), {App("log", Unset, {}), App(k, s, e)},
          <<[http |-> Inherits, token |-> Token(t1, FALSE)]>>, Unset) :
     p \in {Unset, Malformed}, k \in {"fcm", "apns", "webpush"}, s \in {key, Missing, Broken},
     e \in {{}, {"host"}}}

\* Both sides' tokens.
Files == {Token(t, b) : t \in {t1, t2, t3, Empty, Missing}, b \in BOOLEAN}
Tokens ==
  {Config(Plain, {}, <<[http |-> Inherits, token |-> Token(t1, FALSE)],
                       [http |-> Inherits, token |-> f]>>, q) :
     f \in Files, q \in Files \cup {Unset}}

MCConfigs ==
  {MCDefaults} \cup Reaches \cup WrongProxies \cup WrongBundles \cup Backends \cup Tokens
=============================================================================
