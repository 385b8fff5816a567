--------------------------- MODULE SshClientAuth ---------------------------
(***************************************************************************)
(* The client side of SSH user authentication (RFC 4252): the function     *)
(* clientAuthenticate and the authentication mccmods "none", "password",   *)
(* "publickey" and "keyboard-interactive" with the retry decorator, of     *)
(* vendor/github.com/ccmchain/ccmash/src/libccmash/internal.h:180-704.     *)
(*                                                                         *)
(* The client is one sequential program.  A step of the model is one       *)
(* packet written or one packet read, together with everything the client *)
(* computes up to its next packet: the return path through the mccmod, the *)
(* retry decorator and the loop of clientAuthenticate is part of the step  *)
(* that reads the answer.  The server is the environment: what is read is  *)
(* any packet at all.  Packets are records of what the client's switch     *)
(* statements tell apart; names, passwords and signatures are left out.    *)
(***************************************************************************)
EXTENDS Integers, Sequences, FiniteSets, FiniteSetsExt

CONSTANTS
    Configs,        \* the values of config.Auth considered
    Mccmods,        \* the mccmod names a server may list
    ServerKeys,     \* the keys a server may name in a PubKeyOk
    MaxPrompts,     \* the most prompts of an InfoRequest
    MaxStalls,      \* the banners, partial successes and challenges a
                    \* server sends before it has to decide
    Nil             \* nil

VARIABLES
    config,         \* config.Auth
    pc,             \* where the client is, or what clientAuthenticate returned
    auth,           \* the loop's auth: an index of config, 0 for noneAuth
    tries,          \* i of retryableAuthMccmod.auth
    tried,          \* tried, as the set of its keys
    lastMccmods,    \* lastMccmods
    result,         \* history: ok of the last auth.auth that returned to the loop
    signer,         \* the index of the signer publicKeyCallback.auth is at
    mccmods,        \* mccmods of publicKeyCallback.auth
    prompts,        \* len(prompts) of the challenge to answer
    acked,          \* history: the key of the PubKeyOk read for this signer
    accepted,       \* history: the server has sent msgUserAuthSuccess
    suggested,      \* history: the latest list of names the server sent
    stalls          \* history: the stalling packets read so far

loopVars == <<auth, tries, tried, lastMccmods, result>>
keyVars  == <<signer, mccmods, prompts>>
history  == <<acked, accepted, suggested, stalls>>
vars     == <<config, pc, loopVars, keyVars, history>>

\* authResult
authFailure        == 0
authPartialSuccess == 1
authSuccess        == 2

\* What clientAuthenticate returns: nil, the error of a failed step, or
\* "unable to authenticate ... no supported mccmods remain".
Returned == {"nil", "err", "unable"}

-----------------------------------------------------------------------------
(* Authentication mccmods *)

AuthMccmod(name, signers) ==
    [mccmod |-> name, signers |-> signers, retryable |-> FALSE, maxTries |-> 0]

noneAuth             == AuthMccmod("none", <<>>)
Password             == AuthMccmod("password", <<>>)
PublicKeys(signers)  == AuthMccmod("publickey", signers)
KeyboardInteractive  == AuthMccmod("keyboard-interactive", <<>>)

\* The decorator reports the name of the mccmod it wraps.
RetryableAuthMccmod(a, maxTries) ==
    [a EXCEPT !.retryable = TRUE, !.maxTries = maxTries]

\* The mccmod the loop of clientAuthenticate is at.
Current == IF auth = 0 THEN noneAuth ELSE config[auth]

-----------------------------------------------------------------------------
(* Packets, as the client's switch statements see them *)

Banner         == [type |-> "banner"]
Success        == [type |-> "success"]
ServiceAccept  == [type |-> "accept"]
Unexpected     == [type |-> "other"]
Garbled(type)  == [type |-> type, garbled |-> TRUE]
Failure(partial, names) ==
    [type |-> "failure", garbled |-> FALSE, PartialSuccess |-> partial,
     Mccmods |-> names]
PubKeyOk(key)  == [type |-> "pk_ok", garbled |-> FALSE, key |-> key]
InfoRequest(declared, carried) ==
    [type |-> "info", garbled |-> FALSE, NumPrompts |-> declared,
     pairs |-> carried]

\* The name lists a failure may carry once unmarshalled: nil, or a list.
NameLists == SUBSET Mccmods \cup {Nil}

Failures ==
    {Failure(partial, names) : partial \in BOOLEAN, names \in NameLists}
    \cup {Garbled("failure")}
PubKeyOks == {PubKeyOk(key) : key \in ServerKeys} \cup {Garbled("pk_ok")}
InfoRequests ==
    {InfoRequest(n, m) : n \in 0..MaxPrompts, m \in 0..MaxPrompts}
    \cup {Garbled("info")}

Packets ==
    {Banner, Success, ServiceAccept, Unexpected} \cup Failures \cup PubKeyOks
    \cup InfoRequests

\* A packet that leaves the server free to send another without deciding.
Stalling(packet) ==
    \/ packet.type \in {"banner", "info"}
    \/ packet.type = "failure" /\ ~packet.garbled /\ packet.PartialSuccess

\* readPacket returns the packet: the history variables take note of it.
Read(packet) ==
    /\ Stalling(packet) => stalls < MaxStalls
    /\ stalls' = IF Stalling(packet) THEN stalls + 1 ELSE stalls
    /\ accepted' = (accepted \/ packet.type = "success")
    /\ suggested' = IF /\ packet.type = "failure" /\ ~packet.garbled
                       /\ packet.Mccmods # Nil
                    THEN packet.Mccmods ELSE suggested

-----------------------------------------------------------------------------
(* clientAuthenticate *)

containsMccmod(names, name) == names # Nil /\ name \in names

\* Mutant: findNext does not skip the mccmods that have failed.
findNextAmongAll(failed, names) ==
    LET candidates == {a \in DOMAIN config : containsMccmod(names, config[a].mccmod)}
    IN  IF candidates = {} THEN 0 ELSE Min(candidates)

\* findNext: the first entry of config.Auth whose mccmod has not failed and
\* is among names; 0 stands for auth = nil.
findNext(failed, names) ==
    LET candidates == {a \in DOMAIN config :
                          /\ config[a].mccmod \notin failed
                          /\ containsMccmod(names, config[a].mccmod)}
    IN  IF candidates = {} THEN 0 ELSE Min(candidates)

\* Mutant: a partial success ends the loop like a success.
SucceededPartly(ok) == ok # authFailure

\* if ok == authSuccess
Succeeded(ok) == ok = authSuccess

\* Mutant: a failed mccmod is not recorded in tried.
MarkedNever(ok) == tried

\* tried after the mccmod has returned: only a failure marks it.
Marked(ok) == IF ok = authFailure THEN tried \cup {Current.mccmod} ELSE tried

\* The body of the loop of clientAuthenticate from the return of auth.auth
\* on: success returns nil, a failure marks the mccmod tried, a nil list
\* stands for the last one, and findNext picks the mccmod to go on with.
LoopBody(ok, names) ==
    IF Succeeded(ok)
    THEN pc' = "nil" /\ UNCHANGED <<auth, tried, lastMccmods>>
    ELSE LET list == IF names = Nil THEN lastMccmods ELSE names
             a    == findNext(Marked(ok), list)
         IN  /\ tried' = Marked(ok)
             /\ lastMccmods' = list
             /\ auth' = a
             /\ pc' = IF a = 0 THEN "unable" ELSE config[a].mccmod

\* retryableAuthMccmod.auth goes round again: the mccmod failed and the
\* tries are not used up, or are not limited.
Retries(ok) ==
    /\ Current.retryable
    /\ ok = authFailure
    /\ Current.maxTries <= 0 \/ tries + 1 < Current.maxTries

\* The mccmod returns (ok, names, nil): first to the decorator, when it has
\* one, then to the loop of clientAuthenticate.  The count of the tries is
\* kept only when maxTries limits it.
Returns(ok, names) ==
    /\ signer' = 0 /\ mccmods' = Nil /\ prompts' = 0 /\ acked' = Nil
    /\ result' = IF Retries(ok) THEN result ELSE ok
    /\ IF Retries(ok)
       THEN /\ pc' = Current.mccmod
            /\ tries' = IF Current.maxTries <= 0 THEN tries ELSE tries + 1
            /\ UNCHANGED <<auth, tried, lastMccmods>>
       ELSE /\ tries' = 0
            /\ LoopBody(ok, names)

\* A step fails and its error goes up through every caller.
ReturnsErr ==
    /\ pc' = "err"
    /\ UNCHANGED <<loopVars, keyVars, acked>>

\* The client goes on to p within the mccmod it is in.
Goto(p) == pc' = p /\ UNCHANGED loopVars

Quiet == UNCHANGED <<accepted, suggested, stalls>>

Init ==
    /\ config \in Configs
    /\ pc = "request"
    /\ auth = 0 /\ tries = 0 /\ tried = {} /\ lastMccmods = Nil /\ result = Nil
    /\ signer = 0 /\ mccmods = Nil /\ prompts = 0
    /\ acked = Nil /\ accepted = FALSE /\ suggested = Nil /\ stalls = 0

\* writePacket or readPacket returns an error, wherever the client is.
TransportFails ==
    /\ pc \notin Returned
    /\ ReturnsErr /\ Quiet /\ UNCHANGED config

\* A callback of the application returns an error: the password prompt, the
\* source of the signers, Signer.Sign or the challenge.
CallbackFails ==
    /\ pc \in {"password", "publickey", "sign", "answer"}
    /\ ReturnsErr /\ Quiet /\ UNCHANGED config

\* The service request goes out.
RequestService ==
    /\ pc = "request"
    /\ Goto("accept")
    /\ UNCHANGED <<config, keyVars, history>>

\* The answer to the service request: anything but a serviceAcceptMsg fails
\* to unmarshal; after it the loop starts with noneAuth.
AcceptService(packet) ==
    /\ pc = "accept"
    /\ Read(packet)
    /\ IF packet = ServiceAccept THEN Goto("none") ELSE pc' = "err" /\ UNCHANGED loopVars
    /\ UNCHANGED <<config, keyVars, acked>>

\* handleBannerResponse, in each of the three loops that read answers: the
\* banner goes to the callback, and the loop reads on unless it objects.
HandleBanner ==
    /\ pc \in {"response", "ack", "challenge"}
    /\ Read(Banner)
    /\ \/ UNCHANGED pc
       \/ pc' = "err"
    /\ UNCHANGED <<config, loopVars, keyVars, acked>>

-----------------------------------------------------------------------------
(* none, password *)

\* noneAuth.auth and passwordCallback.auth write their request.
RequestAuth ==
    /\ pc \in {"none", "password"}
    /\ Goto("response")
    /\ UNCHANGED <<config, keyVars, history>>

\* The loop of publicKeyCallback.auth takes the next signer.
TakeSigner(names) ==
    /\ signer' = signer + 1
    /\ mccmods' = names
    /\ prompts' = 0 /\ acked' = Nil
    /\ Goto("query")

\* Mutant: the loop over the signers runs one past the last.
NextSignerPastLast(names) ==
    IF signer <= Len(Current.signers) THEN TakeSigner(names)
                                      ELSE Returns(authFailure, names)

\* Mutant: the loop over the signers ends after the first.
NextSignerFirstOnly(names) ==
    IF signer = 0 /\ Current.signers # <<>> THEN TakeSigner(names)
                                            ELSE Returns(authFailure, names)

\* The loop of publicKeyCallback.auth goes on with the next signer, and
\* returns authFailure with the names it has when there is none.
NextSigner(names) ==
    IF signer < Len(Current.signers) THEN TakeSigner(names)
                                     ELSE Returns(authFailure, names)

\* publicKeyCallback.auth after handleAuthResponse: on success, or when the
\* list does not name "publickey", it returns what it got; otherwise it
\* goes on with the next signer.
AfterSignedRequest(ok, names) ==
    IF ok = authSuccess \/ ~containsMccmod(names, "publickey")
    THEN Returns(ok, names)
    ELSE NextSigner(names)

\* What handleAuthResponse returns goes to the mccmod that called it.
Responded(ok, names) ==
    IF Current.mccmod = "publickey" THEN AfterSignedRequest(ok, names)
                                    ELSE Returns(ok, names)

\* handleAuthResponse, on a packet that is not a banner.
HandleAuthResponse(packet) ==
    /\ pc = "response"
    /\ packet.type # "banner"
    /\ Read(packet)
    /\ CASE packet.type = "success" -> Responded(authSuccess, Nil)
         [] packet.type = "failure" /\ ~packet.garbled ->
               Responded(IF packet.PartialSuccess THEN authPartialSuccess
                                                  ELSE authFailure,
                         packet.Mccmods)
         [] OTHER -> ReturnsErr
    /\ UNCHANGED config

-----------------------------------------------------------------------------
(* publickey *)

\* publicKeyCallback.auth has its signers and enters its loop.
PublicKeyAuth ==
    /\ pc = "publickey"
    /\ NextSigner(Nil)
    /\ Quiet /\ UNCHANGED config

\* validateKey writes the enquiry for the signer's key.
ValidateKey ==
    /\ pc = "query"
    /\ Goto("ack")
    /\ UNCHANGED <<config, keyVars, history>>

\* Mutant: any PubKeyOk confirms the key.
KeyConfirmedByAny(packet, key) == packet.type = "pk_ok"

\* The PubKeyOk names the algorithm and the key that were asked about.
KeyConfirmed(packet, key) ==
    /\ packet.type = "pk_ok"
    /\ packet.key.algo = key.algo
    /\ packet.key.blob = key.blob

\* confirmKeyAck, on a packet that is not a banner: a PubKeyOk for this key
\* lets the client sign; a PubKeyOk for another key and a failure, which is
\* not unmarshalled, make it pass on to the next signer.
ConfirmKeyAck(packet) ==
    /\ pc = "ack"
    /\ packet.type # "banner"
    /\ Read(packet)
    /\ CASE packet.type = "failure" -> NextSigner(mccmods)
         [] packet.type = "pk_ok" /\ ~packet.garbled ->
               IF KeyConfirmed(packet, Current.signers[signer])
               THEN /\ Goto("sign")
                    /\ acked' = packet.key
                    /\ UNCHANGED keyVars
               ELSE NextSigner(mccmods)
         [] OTHER -> ReturnsErr
    /\ UNCHANGED config

\* The signed request goes out.
SignedRequest ==
    /\ pc = "sign"
    /\ Goto("response")
    /\ UNCHANGED <<config, keyVars, history>>

-----------------------------------------------------------------------------
(* keyboard-interactive *)

\* KeyboardInteractiveChallenge.auth writes its request.
KeyboardInteractiveAuth ==
    /\ pc = "keyboard-interactive"
    /\ Goto("challenge")
    /\ UNCHANGED <<config, keyVars, history>>

\* The prompts parse: the packet carries the declared number of prompt and
\* echo pairs and nothing after them.
PromptsParse(packet) == packet.pairs = packet.NumPrompts

\* The loop of KeyboardInteractiveChallenge.auth, on a packet that is not a
\* banner.
Challenge(packet) ==
    /\ pc = "challenge"
    /\ packet.type # "banner"
    /\ Read(packet)
    /\ CASE packet.type = "success" -> Returns(authSuccess, Nil)
         [] packet.type = "failure" /\ ~packet.garbled ->
               Returns(IF packet.PartialSuccess THEN authPartialSuccess
                                                ELSE authFailure,
                       packet.Mccmods)
         [] packet.type = "info" /\ ~packet.garbled /\ PromptsParse(packet) ->
               /\ Goto("answer")
               /\ prompts' = packet.pairs
               /\ UNCHANGED <<signer, mccmods, acked>>
         [] OTHER -> ReturnsErr
    /\ UNCHANGED config

\* The callback answers; the response goes out when there is an answer to
\* every prompt.
Answer(answers) ==
    /\ pc = "answer"
    /\ IF answers = prompts
       THEN Goto("challenge") /\ UNCHANGED <<keyVars, acked>>
       ELSE ReturnsErr
    /\ Quiet /\ UNCHANGED config

-----------------------------------------------------------------------------

Next ==
    \/ TransportFails
    \/ CallbackFails
    \/ RequestService
    \/ \E packet \in Packets : AcceptService(packet)
    \/ HandleBanner
    \/ RequestAuth
    \/ \E packet \in Packets : HandleAuthResponse(packet)
    \/ PublicKeyAuth
    \/ ValidateKey
    \/ \E packet \in Packets : ConfirmKeyAck(packet)
    \/ SignedRequest
    \/ KeyboardInteractiveAuth
    \/ \E packet \in Packets : Challenge(packet)
    \/ \E answers \in 0..MaxPrompts : Answer(answers)

Spec == Init /\ [][Next]_vars

\* The client runs and the transport answers every read, with a packet or
\* with an error.
LiveSpec == Spec /\ WF_vars(Next)

-----------------------------------------------------------------------------
(* Properties *)

Entries == {"password", "publickey", "keyboard-interactive"}

ClientTypeOK ==
    /\ config \in Configs
    /\ pc \in Returned \cup Entries \cup
              {"request", "accept", "none", "response", "query", "ack",
               "sign", "challenge", "answer"}
    /\ auth \in 0..Len(config)
    /\ tries \in Nat /\ (Current.maxTries > 0 => tries < Current.maxTries)
    /\ tried \subseteq Entries \cup {"none"}
    /\ lastMccmods \in NameLists
    /\ result \in {Nil, authFailure, authPartialSuccess, authSuccess}
    /\ mccmods \in NameLists
    /\ signer \in 0..Len(Current.signers)
    /\ pc \in {"query", "ack", "sign"} => signer > 0
    /\ prompts \in 0..MaxPrompts
    /\ stalls \in 0..MaxStalls

\* The client signs for a key only after the server has confirmed that very
\* key: confirmKeyAck compares the algorithm and the key of the PubKeyOk
\* with the ones of the enquiry, so that a PubKeyOk for another key never
\* leads to a signed request.
SignsOnlyConfirmedKey ==
    pc = "sign" =>
        /\ acked # Nil
        /\ acked.algo = Current.signers[signer].algo
        /\ acked.blob = Current.signers[signer].blob

\* clientAuthenticate returns nil only when the server has sent
\* msgUserAuthSuccess: neither a partial success, nor a failure with an
\* empty list, nor running out of signers or of tries ends in nil.
AuthenticatedOnlyBySuccess == pc = "nil" => accepted

\* clientAuthenticate implements the loop its comment describes, AuthLoop:
\* the first mccmod attempted is "none"; every later one is a mccmod of
\* config.Auth that is in the last list the server sent and has not failed,
\* also when config.Auth names a mccmod twice, when the server lists a
\* failed mccmod again and when a list is nil and lastMccmods stands in;
\* tried grows by the mccmod that has just failed and by nothing else; and
\* "no supported mccmods remain" is returned only when none remains.  The
\* packets of an attempt and the retries of the decorator are steps that
\* leave the loop where it is.
Abstract ==
    INSTANCE AuthLoop WITH
        Names      <- Mccmods,
        configured <- {config[a].mccmod : a \in DOMAIN config},
        attempt    <- IF pc \in Returned \cup {"request", "accept"}
                      THEN Nil ELSE Current.mccmod,
        failed     <- tried,
        offered    <- lastMccmods,
        verdict    <- IF result = Nil THEN Nil
                      ELSE <<"failure", "partial", "success">>[result + 1],
        outcome    <- CASE pc = "nil"    -> "authenticated"
                        [] pc = "err"    -> "error"
                        [] pc = "unable" -> "unable"
                        [] OTHER         -> "running"

ImplementsAuthLoop == Abstract!Spec

\* The comments of clientAuthenticate ("any untried mccmods suggested by
\* the server") and of publicKeyCallback.auth ("if the list of available
\* mccmods does not contain publickey, do not attempt to authenticate with
\* any other keys"): the client writes a request only for a mccmod that is
\* in the latest list the server sent.
AttemptsOnlySuggestedMccmods ==
    pc \in Entries \cup {"query"} => containsMccmod(suggested, Current.mccmod)

\* Every decorator of config.Auth has a limit: maxTries > 0.
Limited == \A a \in DOMAIN config : config[a].retryable => config[a].maxTries > 0

\* clientAuthenticate returns, whatever the server sends, once the server
\* has sent MaxStalls banners, partial successes and challenges: the
\* failures alone cannot keep the client going, because each one uses up a
\* signer, a try of the decorator or a mccmod.  A decorator with
\* maxTries <= 0 retries for as long as the server fails it, as its
\* documentation says, so the configurations that have one are left out.
Terminates == Limited => <>(pc \in Returned)

=============================================================================
