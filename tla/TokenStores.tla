----------------------------- MODULE TokenStores -----------------------------
(***************************************************************************)
(* The token stores of one image (token_manager.cpp), the C doors onto     *)
(* them (lp_token_* in logos_protocol.cpp) and the clients that capture a  *)
(* store at construction (logos_api_client.cpp).  A step is one critical   *)
(* section of the registry's mutex or of a store's mutex; sections of one  *)
(* call that commute with everything between them are one step.            *)
(*                                                                         *)
(* A store is one map in which the direction of a token is in the key: the *)
(* bare peer name for a token this image presents, inboundKey(caller) for  *)
(* one it issued.  An absent and an empty value answer getToken,           *)
(* credential and the gate alike, so both are NoToken.                     *)
(***************************************************************************)
EXTENDS Naturals, FiniteSets

CONSTANTS
  Names,            \* identities and peers
  Clients,          \* LogosAPIClients of this image
  ClientIdentity,   \* the origin a client says it is, "" when it says nothing
  ClientTarget,     \* the module it talks to
  Adopters,         \* threads that run adoptCredentialFor
  HostAnchor,       \* the value instance() holds under both bootstrap keys
  Creds,            \* credentials the host mints for identities
  Minted,           \* tokens capability_module mints for a pair
  Services,         \* the host services whose grant a store door reads
  NoToken,
  MaxCalls          \* a bound: calls through the doors

BootstrapKeys == {"core", "capability_module"}
Shared == "instance()"
Stores == Names \cup {Shared}
Peers == Names \cup BootstrapKeys
Tokens == Creds \cup Minted \cup {HostAnchor}

ASSUME NamesAssumption ==
  /\ Shared \notin Names /\ "" \notin Names /\ Names \cap BootstrapKeys = {}
  /\ ClientIdentity \in [Clients -> Names \cup {""}]
  /\ ClientTarget \in [Clients -> Peers]
ASSUME TokensAssumption ==
  /\ NoToken \notin Tokens /\ HostAnchor \notin Creds \cup Minted
  /\ Creds \cap Minted = {}
ASSUME BoundAssumption == MaxCalls \in Nat

VARIABLES
  isolated, vended, created,  \* StoreRegistry: isolated, vendedShared, keys of stores
  tokens,                     \* each store's m_tokens
  services,                   \* g_hostServices
  held,                       \* the store a client captured, "" before construction
  adopt,                      \* where each adoptCredentialFor is
  exchange,                   \* where each client's token exchange is
  calls,                      \* door calls so far
  \* history, read by properties only
  issued                      \* <<store or proxy, caller, token>> of every accepted grant

registry == <<isolated, vended, created>>
vars == <<registry, tokens, services, held, adopt, exchange, calls, issued>>

-----------------------------------------------------------------------------
(* Keys.  A name that carries the namespace character is spelled like an   *)
(* inbound key, which is what isReservedKey is there to recognise.         *)

Bare(n) == [ns |-> "bare", name |-> n]
InboundKey(k) == [ns |-> "in", name |-> k.name]
StoreKeys == [ns : {"bare", "in"}, name : Peers]

IsReservedKey(k) == k.ns = "in"

EmptyStore == [k \in StoreKeys |-> NoToken]

\* credentialLocked: the first bootstrap key that is set, "core" before
\* "capability_module".
CredentialIn(store) ==
  IF store[Bare("core")] # NoToken THEN store[Bare("core")]
                                   ELSE store[Bare("capability_module")]

Credential(s) == CredentialIn(tokens[s])

-----------------------------------------------------------------------------
(* The registry.                                                           *)

IsIsolated(i) == i \in isolated

\* The store forIdentity(i) answers with.
StoreOf(i) == IF IsIsolated(i) THEN i ELSE Shared

\* The stores after forIdentity(i): a private store is born empty.
WithStore(i) ==
  IF IsIsolated(i) /\ i \notin created THEN [tokens EXCEPT ![i] = EmptyStore] ELSE tokens

\* forIdentity, what it does to the registry.
ForIdentity(i) ==
  /\ vended' = IF IsIsolated(i) THEN vended ELSE vended \cup {i}
  /\ created' = IF IsIsolated(i) THEN created \cup {i} ELSE created
  /\ UNCHANGED isolated

Called == calls < MaxCalls /\ calls' = calls + 1

\* Mutation of IsolateIdentity: a name is isolated although its clients exist.
IsolateTooLate(i) ==
  /\ Called
  /\ i # "" /\ i \notin isolated
  /\ isolated' = isolated \cup {i}
  /\ UNCHANGED <<vended, created, tokens, services, held, adopt, exchange, issued>>

\* isolateIdentity (lp_token_isolate_identity), where it is not a refusal.
IsolateIdentity(i) ==
  /\ Called
  /\ i # "" /\ i \notin isolated
  /\ i \notin vended
  /\ isolated' = isolated \cup {i}
  /\ UNCHANGED <<vended, created, tokens, services, held, adopt, exchange, issued>>

-----------------------------------------------------------------------------
(* One store's map.                                                        *)

SaveToken(ts, s, k, t) == IF IsReservedKey(k) THEN ts ELSE [ts EXCEPT ![s][k] = t]

RemoveToken(ts, s, k) == IF IsReservedKey(k) THEN ts ELSE [ts EXCEPT ![s][k] = NoToken]

GetToken(s, k) == IF IsReservedKey(k) THEN NoToken ELSE tokens[s][k]

SaveInboundToken(ts, s, k, t) ==
  IF IsReservedKey(k) THEN ts ELSE [ts EXCEPT ![s][InboundKey(k)] = t]

ClearAllTokens(ts, s) == [ts EXCEPT ![s] = EmptyStore]

-----------------------------------------------------------------------------
(* The doors of the C interface.                                           *)

\* lp_token_save: refuses a reserved key before it reaches the store.
LpTokenSave(k, t) ==
  /\ Called
  /\ ~IsReservedKey(k)
  /\ tokens' = SaveToken(tokens, Shared, k, t)
  /\ UNCHANGED <<registry, services, held, adopt, exchange, issued>>

\* lp_token_save_inbound: the inbound half always, the outbound half too in
\* the image that holds the registry.
LpTokenSaveInbound(k, t) ==
  /\ Called
  /\ ~IsReservedKey(k)
  /\ LET in == SaveInboundToken(tokens, Shared, k, t)
     IN tokens' = IF "token_registry" \in services THEN SaveToken(in, Shared, k, t) ELSE in
  /\ issued' = issued \cup {<<Shared, k.name, t>>}
  /\ UNCHANGED <<registry, services, held, adopt, exchange>>

\* lp_token_get_for: a read, which nevertheless goes through forIdentity.
LpTokenGetFor(i) ==
  /\ Called
  /\ ForIdentity(i) /\ tokens' = WithStore(i)
  /\ UNCHANGED <<services, held, adopt, exchange, issued>>

\* lp_token_save_for: the key is checked before forIdentity.
LpTokenSaveFor(i, k, t) ==
  /\ Called
  /\ ~IsReservedKey(k)
  /\ ForIdentity(i)
  /\ tokens' = SaveToken(WithStore(i), StoreOf(i), k, t)
  /\ UNCHANGED <<services, held, adopt, exchange, issued>>

\* lp_grant_host_services: a list replaces the grant as a whole, one with an
\* unknown name changes nothing.
LpGrantHostServices(names) ==
  /\ Called
  /\ names \subseteq Services /\ services' = names
  /\ UNCHANGED <<registry, tokens, held, adopt, exchange, issued>>

-----------------------------------------------------------------------------
(* Credentials.  adoptCredential is two writes, each its own section.      *)

NoAdoption == [id |-> "", cred |-> NoToken, next |-> "none"]

\* adoptCredentialFor up to its writes: the identity is isolated and the value
\* is not the host's own anchor.
AdoptCredentialFor(a, i, t) ==
  /\ Called
  /\ adopt[a] = NoAdoption
  /\ i # "" /\ IsIsolated(i)
  /\ t # Credential(Shared)
  /\ ForIdentity(i) /\ tokens' = WithStore(i)
  /\ adopt' = [adopt EXCEPT ![a] = [id |-> i, cred |-> t, next |-> "core"]]
  /\ UNCHANGED <<services, held, exchange, issued>>

\* adoptCredential, the next of its two writes.
AdoptCredential(a) ==
  LET d == adopt[a] IN
  /\ d.next # "none"
  /\ tokens' = SaveToken(tokens, d.id, Bare(d.next), d.cred)
  /\ adopt' = [adopt EXCEPT ![a] =
       IF d.next = "core" THEN [d EXCEPT !.next = "capability_module"] ELSE NoAdoption]
  /\ UNCHANGED <<registry, services, held, exchange, calls, issued>>

\* resetIdentity (lp_token_reset_identity): a private store is cleared, the
\* credential with it; the shared one never is.
ResetIdentity(i) ==
  /\ Called
  /\ IsIsolated(i)
  /\ ForIdentity(i)
  /\ tokens' = ClearAllTokens(tokens, i)
  /\ UNCHANGED <<services, held, adopt, exchange, issued>>

-----------------------------------------------------------------------------
(* Clients: the store is captured once and used from then on.              *)

\* LogosAPIClient's constructor, without an explicit store (storeFor).
NewClient(c) ==
  LET i == ClientIdentity[c] IN
  /\ held[c] = ""
  /\ ForIdentity(i) /\ tokens' = WithStore(i)
  /\ held' = [held EXCEPT ![c] = StoreOf(i)]
  /\ UNCHANGED <<services, adopt, exchange, calls, issued>>

\* A call finds no token for its target and asks capability_module for one,
\* authenticated by the token under "capability_module".
ClientMiss(c) ==
  /\ held[c] # "" /\ exchange[c] = "none"
  /\ GetToken(held[c], Bare(ClientTarget[c])) = NoToken
  /\ GetToken(held[c], Bare("capability_module")) # NoToken
  /\ exchange' = [exchange EXCEPT ![c] = "asked"]
  /\ UNCHANGED <<registry, tokens, services, held, adopt, calls, issued>>

\* The target rejected the token: it is dropped and a fresh one asked for.
ClientRejected(c) ==
  /\ Called
  /\ held[c] # "" /\ exchange[c] = "none"
  /\ GetToken(held[c], Bare(ClientTarget[c])) # NoToken
  /\ tokens' = RemoveToken(tokens, held[c], Bare(ClientTarget[c]))
  /\ exchange' = [exchange EXCEPT ![c] =
       IF tokens'[held[c]][Bare("capability_module")] # NoToken THEN "asked" ELSE "none"]
  /\ UNCHANGED <<registry, services, held, adopt, issued>>

\* mintAndCacheToken: the answer is cached under the target's name.
ClientMinted(c, t) ==
  /\ exchange[c] = "asked"
  /\ tokens' = SaveToken(tokens, held[c], Bare(ClientTarget[c]), t)
  /\ exchange' = [exchange EXCEPT ![c] = "none"]
  /\ UNCHANGED <<registry, services, held, adopt, calls, issued>>

\* requestModule was refused.
ClientRefused(c) ==
  /\ exchange[c] = "asked"
  /\ exchange' = [exchange EXCEPT ![c] = "none"]
  /\ UNCHANGED <<registry, tokens, services, held, adopt, calls, issued>>

-----------------------------------------------------------------------------
\* The host installed its anchor before it admitted anyone.
Init ==
  /\ isolated = {} /\ vended = {} /\ created = {}
  /\ tokens = [s \in Stores |->
       [k \in StoreKeys |-> IF s = Shared /\ k \in {Bare(n) : n \in BootstrapKeys}
                            THEN HostAnchor ELSE NoToken]]
  /\ services = {}
  /\ held = [c \in Clients |-> ""]
  /\ adopt = [a \in Adopters |-> NoAdoption]
  /\ exchange = [c \in Clients |-> "none"]
  /\ calls = 0
  /\ issued = {}

\* A peer is named by capability_module or by the C interface's caller, so any
\* spelling may arrive, a bootstrap key's included: the doors refuse the
\* reserved namespace only.  What is saved through them is a minted token.
Next ==
  \/ \E i \in Names : IsolateIdentity(i)
  \/ \E k \in StoreKeys, t \in Minted : LpTokenSave(k, t)
  \/ \E k \in StoreKeys, t \in Minted : LpTokenSaveInbound(k, t)
  \/ \E i \in Names \cup {""} : LpTokenGetFor(i)
  \/ \E i \in Names, k \in StoreKeys, t \in Minted : LpTokenSaveFor(i, k, t)
  \/ \E S \in SUBSET Services : LpGrantHostServices(S)
  \/ \E a \in Adopters, i \in Names, t \in Creds \cup {HostAnchor} : AdoptCredentialFor(a, i, t)
  \/ \E a \in Adopters : AdoptCredential(a)
  \/ \E i \in Names : ResetIdentity(i)
  \/ \E c \in Clients :
       \/ NewClient(c) \/ ClientMiss(c) \/ ClientRejected(c) \/ ClientRefused(c)
       \/ \E t \in Minted : ClientMinted(c, t)

Spec == Init /\ [][Next]_vars

-----------------------------------------------------------------------------
TypeOK ==
  /\ isolated \subseteq Names /\ created \subseteq Names
  /\ vended \subseteq Names \cup {""}
  /\ tokens \in [Stores -> [StoreKeys -> Tokens \cup {NoToken}]]
  /\ services \subseteq Services
  /\ held \in [Clients -> Stores \cup {""}]
  /\ adopt \in [Adopters -> [id : Names \cup {""}, cred : Tokens \cup {NoToken},
                             next : BootstrapKeys \cup {"none"}]]
  /\ exchange \in [Clients -> {"none", "asked"}]
  /\ \A c \in Clients : exchange[c] = "asked" => held[c] # ""
  /\ calls \in 0..MaxCalls

\* Two clients of one identity never work from different stores, and what a
\* client captured at construction is what forIdentity answers now: the reason
\* isolateIdentity refuses a name whose shared store was vended.
NoSplitBrain ==
  /\ \A c \in Clients : held[c] # "" => held[c] = StoreOf(ClientIdentity[c])
  /\ isolated \cap vended = {}

=============================================================================
