------------------------------- MODULE Admission ------------------------------
(***************************************************************************)
(* How a connection gets into the clients map: the Initial packet without  *)
(* a token is answered by a Retry, the Initial with the token of that      *)
(* Retry creates the client.  Packets are lost, delayed, duplicated and    *)
(* reordered: a first Initial may arrive at any time, and so may, once a   *)
(* Retry was sent, an Initial that carries its token, to the id of that    *)
(* Retry or to any other, old and new.  The address of a client may change *)
(* on the way.  The server may stop and start again,     *)
(* which renews its keys and its clock and forgets its clients, but not the *)
(* packets under way.  ServerRun says when it starts and stops.            *)
(*                                                                         *)
(* The tokens are authenticated by HMAC over everything they bind: a token *)
(* verifies iff the same start minted it over the same values.           *)
(* Packets of known clients, of other types, and version negotiation       *)
(* change nothing here.                                                    *)
(***************************************************************************)
EXTENDS Naturals, FiniteSets

CONSTANTS
    Addrs,      \* source addresses
    Dcids,      \* connection ids chosen by clients
    ShortDcids, \* those of less than MIN_ODCID_LEN bytes
    TTL,        \* TTL_MILLIS, in ticks
    MaxClock,   \* bound: ticks of one start
    MaxStarts,  \* bound: starts of the server
    MaxRetries  \* bound: Retry packets

ASSUME AdmissionAssumption ==
    /\ ShortDcids \subseteq Dcids
    /\ TTL \in Nat \ {0}
    /\ MaxClock \in Nat /\ MaxStarts \in Nat \ {0} /\ MaxRetries \in Nat

VARIABLES
    up,      \* the network worker is in its loop
    start,   \* which start of the server: its token key and connection id seed
    now,     \* started.elapsed()
    retries, \* the Retry packets sent, with their tokens
    clients  \* the clients map

vars == <<up, start, now, retries, clients>>

\* conn_id: HMAC of the connection id a packet carries, under the seed.
Derived(d) == [seed |-> start, of |-> d]
RetryCids == [seed : 1..MaxStarts, of : Dcids]
Cids == Dcids \cup RetryCids

\* Original connection ids have a legal length wherever they are kept.
Odcids == Dcids \ ShortDcids
Tokens == [key : 1..MaxStarts, issued : 0..MaxClock, odcid : Odcids,
           retry_cid : RetryCids, source : Addrs]
Clients == [scid : Cids, odcid : Odcids, addr : Addrs]

TypeOK ==
    /\ up \in BOOLEAN
    /\ start \in 0..MaxStarts
    /\ now \in 0..MaxClock
    /\ retries \subseteq Tokens
    /\ clients \subseteq Clients
    /\ \A c, d \in clients : c.scid = d.scid => c = d

Init ==
    /\ up = FALSE
    /\ start = 0
    /\ now = 0
    /\ retries = {}
    /\ clients = {}

-------------------------------------------------------------------------------
\* Mutant: only the id in the packet is looked up.
KnownDirectOnly(dcid) == \E c \in clients : c.scid = dcid

\* The client of a packet is found under its dcid or under the derived id.
Known(dcid) == \E c \in clients : c.scid = dcid \/ c.scid = Derived(dcid)

\* Mutant: any length is accepted.
MintableAlways(odcid) == TRUE

\* The length check of mint_at.
Mintable(odcid) == odcid \notin ShortDcids

\* mint.
Mint(odcid, retry_cid, source) ==
    [key |-> start, issued |-> now, odcid |-> odcid, retry_cid |-> retry_cid,
     source |-> source]

\* An Initial without a token: stateless Retry.
SendRetry(dcid, from) ==
    /\ up
    /\ ~Known(dcid)
    /\ Mintable(dcid)
    /\ Cardinality(retries) < MaxRetries
    /\ retries' = retries \cup {Mint(dcid, Derived(dcid), from)}
    /\ UNCHANGED <<up, start, now, clients>>

\* Mutant: a token is good for one tick too many.
ExpiredLate(token) == now < token.issued \/ now - token.issued > TTL

\* checked_sub fails for a token from the future.
Expired(token) == now < token.issued \/ now - token.issued >= TTL

\* Mutant: a token is good for any id.
ValidateAnyId(token, dcid, from) ==
    token.key = start /\ token.source = from /\ ~Expired(token)

\* validate.
Validate(token, dcid, from) ==
    /\ token.key = start
    /\ token.retry_cid = dcid
    /\ token.source = from
    /\ ~Expired(token)

\* An Initial with the token of a Retry.  A client gets the id it was sent to.
Accept(token, dcid, from) ==
    /\ up
    /\ ~Known(dcid)
    /\ Validate(token, dcid, from)
    /\ clients' = clients \cup {[scid |-> dcid, odcid |-> token.odcid,
                                 addr |-> from]}
    /\ UNCHANGED <<up, start, now, retries>>

\* A closed connection is collected.
CollectClient(c) ==
    /\ up
    /\ clients' = clients \ {c}
    /\ UNCHANGED <<up, start, now, retries>>

Tick ==
    /\ up
    /\ now < MaxClock
    /\ now' = now + 1
    /\ UNCHANGED <<up, start, retries, clients>>

\* RetryTokens::new and a new conn_id_seed, for an empty clients map.
Boot ==
    /\ ~up
    /\ start < MaxStarts
    /\ up' = TRUE
    /\ start' = start + 1
    /\ now' = 0
    /\ clients' = {}
    /\ UNCHANGED retries

\* The network worker ends: the clients go with the frame of run.
Stop ==
    /\ up
    /\ up' = FALSE
    /\ clients' = {}
    /\ UNCHANGED <<start, now, retries>>

\* What packets and time do to a running server.
Traffic ==
    \/ \E d \in Dcids, a \in Addrs : SendRetry(d, a)
    \/ \E t \in retries, d \in Cids, a \in Addrs : Accept(t, d, a)
    \/ \E c \in clients : CollectClient(c)
    \/ Tick

Next == Traffic \/ Boot \/ Stop

Spec == Init /\ [][Next]_vars

-------------------------------------------------------------------------------
\* A client is created only for an address that was sent a Retry by this very
\* start of the server less than TTL ago, and with the original id of that Retry, however
\* late, often or from wherever its Initial comes.
AdmittedIsFresh ==
    [][\A c \in clients' \ clients :
          \E r \in retries : /\ r.key = start /\ r.source = c.addr
                             /\ r.odcid = c.odcid /\ r.retry_cid = c.scid
                             /\ r.issued <= now /\ now < r.issued + TTL]_vars

\* Both Initials of a handshake lead to the same client: while it exists, a
\* late first Initial draws no second Retry, and there is no second client.
OneClientPerHandshake ==
    /\ [][\A r \in retries' \ retries, c \in clients : c.odcid # r.odcid]_vars
    /\ [](\A c, d \in clients : c.odcid = d.odcid => c = d)
===============================================================================
