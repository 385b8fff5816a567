----------------------------- MODULE SshSession -----------------------------
(***************************************************************************)
(* clientAuthenticate of SshClientAuth with a server that follows RFC 4252 *)
(* on the other end of the transport, to see what the client achieves      *)
(* when nobody cheats.  The client's steps are the actions of              *)
(* SshClientAuth; what it reads is no longer any packet but the reply of   *)
(* the server to the request in flight.                                    *)
(*                                                                         *)
(* The server is not code of this repository.  It is the one RFC 4252      *)
(* describes: it accepts a password or an answer that is right and the     *)
(* signature of a key that is authorized, it says PK_OK for an authorized  *)
(* key only, and it asks for every mccmod of its policy or for any one of  *)
(* them.  The list of a failure names the mccmods that can still help      *)
(* (section 5.1: "only those that are actually useful"), or every mccmod   *)
(* of the policy, which the section allows as well; a mccmod that is       *)
(* listed but has been accepted already is refused when it is tried        *)
(* again.  The transport and the callbacks do not fail, and no banner is   *)
(* sent.                                                                   *)
(***************************************************************************)
EXTENDS SshClientAuth

CONSTANT MaxRounds  \* the most challenges the server sends for one request

VARIABLES
    authorized,     \* the keys the server accepts for the user
    known,          \* the mccmods whose secret the user's callback gets right
    policy,         \* the mccmods the server takes
    needAll,        \* the server asks for every mccmod of policy, not for any one
    listsAll,       \* a failure lists policy, not only what can still help
    remaining,      \* the mccmods that can still help the client
    asks,           \* the number of prompts of a challenge of the server
    rounds,         \* the challenges the server sends before it decides
    challenged      \* the challenges sent for the request in flight

server  == <<authorized, known, policy, needAll, listsAll, remaining,
             asks, rounds, challenged>>
session == <<vars, server>>

\* The key of the enquiry or of the signed request in flight.
Asked == Current.signers[signer]

\* The request in flight is one the server grants: a signature of a key it
\* has said PK_OK for, the right password, the right answers.
Granted ==
    /\ Current.mccmod \in remaining
    /\ \/ pc = "response" /\ Current.mccmod = "publickey"
       \/ pc = "response" /\ Current.mccmod \in known
       \/ pc = "challenge" /\ challenged = rounds /\ Current.mccmod \in known

\* What is left to do once the request in flight is granted.
Rest == IF needAll THEN remaining \ {Current.mccmod} ELSE {}

\* The list of a failure, with or without partial success.
Listed(left) == IF listsAll THEN policy ELSE left

\* The packet the server sends in reply to the request in flight.
Reply ==
    CASE pc = "accept" -> ServiceAccept
      [] pc = "ack" /\ Asked \in authorized /\ "publickey" \in remaining ->
            PubKeyOk(Asked)
      [] pc = "challenge" /\ challenged < rounds /\ Current.mccmod \in remaining ->
            InfoRequest(asks, asks)
      [] Granted -> IF Rest = {} THEN Success ELSE Failure(TRUE, Listed(Rest))
      [] OTHER   -> Failure(FALSE, Listed(remaining))

SessionInit ==
    /\ Init
    /\ authorized \in SUBSET ServerKeys
    /\ known \in SUBSET {"password", "keyboard-interactive"}
    /\ policy \in SUBSET Entries \ {{}}
    /\ needAll \in BOOLEAN
    /\ listsAll \in BOOLEAN
    /\ remaining = policy
    /\ asks \in 0..MaxPrompts
    /\ rounds \in 1..MaxRounds
    /\ challenged = 0

\* The client writes a packet, or goes on without the transport; the
\* callback of a challenge answers every prompt.
ClientWrites ==
    /\ \/ RequestService \/ RequestAuth \/ PublicKeyAuth \/ ValidateKey
       \/ SignedRequest \/ KeyboardInteractiveAuth \/ Answer(prompts)
    /\ UNCHANGED server

\* The client reads the reply of the server.
ClientReads ==
    /\ \/ AcceptService(Reply) \/ HandleAuthResponse(Reply)
       \/ ConfirmKeyAck(Reply) \/ Challenge(Reply)
    /\ remaining' = IF Granted THEN Rest ELSE remaining
    /\ challenged' = IF Reply.type = "info" THEN challenged + 1 ELSE 0
    /\ UNCHANGED <<authorized, known, policy, needAll, listsAll, asks, rounds>>

SessionNext == ClientWrites \/ ClientReads

\* Both ends run: the client is a running program and the server answers
\* every request.
SessionSpec == SessionInit /\ [][SessionNext]_session /\ WF_session(SessionNext)

-----------------------------------------------------------------------------
(* Properties *)

\* The client holds what the server takes for mccmod m.  Only the first
\* entry of config.Auth that names m counts: findNext never reaches a
\* second one, because tried goes by the name.
Holds(m) ==
    LET entries == {a \in DOMAIN config : config[a].mccmod = m}
    IN  /\ entries # {}
        /\ IF m = "publickey"
           THEN Range(config[Min(entries)].signers) \cap authorized # {}
           ELSE m \in known

\* The client can satisfy the policy of the server.
Able ==
    IF needAll THEN \A m \in policy : Holds(m)
               ELSE \E m \in policy : Holds(m)

\* With an honest server, clientAuthenticate ends as it should: it returns
\* nil when the client holds what the policy of the server asks for, in
\* whatever order config.Auth names the mccmods, whichever of them fail
\* first, wherever the authorized key is among the signers, however many
\* challenges the server sends and however many prompts they have, none
\* included, and even when a partial success lists again the mccmod that
\* has just succeeded (only authFailure marks a mccmod as tried, so the
\* client repeats it); and it returns "no supported mccmods remain" when
\* the client does not.  The retries are limited (Limited): a decorator
\* without limit repeats a wrong password for ever.
EndsAsItShould ==
    /\ Limited /\ Able  => <>(pc = "nil")
    /\ Limited /\ ~Able => <>(pc = "unable")

=============================================================================
