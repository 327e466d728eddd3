---------------------------- MODULE TokenProofs ----------------------------
(***************************************************************************)
(* Tokens on both sides of a call: the gate that judges the token it is    *)
(* shown, with the stores below it (ModuleProxy), and the client that      *)
(* exchanges one (TokenExchange).                                          *)
(*                                                                         *)
(* ModuleProxy and the token stores, for any names, clients, providers,    *)
(* adopting threads and tokens, and any number of calls.                   *)
(***************************************************************************)
EXTENDS ModuleProxy, TokenExchange, FiniteSetTheorems, SequenceTheorems, TLAPS

-----------------------------------------------------------------------------
(* Identities and the stores their clients captured.                       *)

\* A client that captured the shared store is a client of an identity whose
\* vending was recorded: what isolateIdentity's refusal rests on.
CapturedIsVended == \A c \in Clients : held[c] = Shared => ClientIdentity[c] \in vended

RegistryInv ==
  /\ isolated \subseteq Names
  /\ held \in [Clients -> Stores \cup {""}]
  /\ NoSplitBrain
  /\ CapturedIsVended

\* Vending a store to an identity breaks nothing that was captured before.
LEMMA VendingKeeps ==
  ASSUME RegistryInv, NEW i, ForIdentity(i), UNCHANGED held
  PROVE  RegistryInv'
BY NamesAssumption
   DEF RegistryInv, NoSplitBrain, CapturedIsVended, StoreOf, IsIsolated, ForIdentity, Stores

\* A step that leaves the registry and the captured stores alone keeps RegistryInv.
LEMMA RegistryFrame == RegistryInv /\ UNCHANGED <<registry, held>> => RegistryInv'
BY DEF RegistryInv, NoSplitBrain, CapturedIsVended, StoreOf, IsIsolated, registry, Stores

\* Every step of the stores and of the proxies keeps RegistryInv.
LEMMA RegistryStep == RegistryInv /\ [ProxyNext]_allVars => RegistryInv'
<1> SUFFICES ASSUME RegistryInv, [ProxyNext]_allVars PROVE RegistryInv'
  OBVIOUS
<1>1. ASSUME NEW i \in Names, IsolateIdentity(i) PROVE RegistryInv'
  BY <1>1, NamesAssumption
     DEF IsolateIdentity, RegistryInv, NoSplitBrain, CapturedIsVended, StoreOf, IsIsolated, Stores
<1>2. ASSUME NEW c \in Clients, NewClient(c) PROVE RegistryInv'
  BY <1>2, NamesAssumption
     DEF NewClient, ForIdentity, RegistryInv, NoSplitBrain, CapturedIsVended, StoreOf,
         IsIsolated, Stores
<1>3. ASSUME NEW i, ForIdentity(i), UNCHANGED held PROVE RegistryInv'
  BY <1>3, VendingKeeps
<1>4. ASSUME UNCHANGED <<registry, held>> PROVE RegistryInv'
  BY <1>4, RegistryFrame
<1>5. CASE Next /\ UNCHANGED proxyVars
  <2>1. ASSUME NEW k, NEW t, LpTokenSave(k, t) \/ LpTokenSaveInbound(k, t) PROVE RegistryInv'
    BY <2>1, <1>4 DEF LpTokenSave, LpTokenSaveInbound
  <2>2. ASSUME NEW i, LpTokenGetFor(i) PROVE RegistryInv'
    BY <2>2, <1>3 DEF LpTokenGetFor
  <2>3. ASSUME NEW i, NEW k, NEW t, LpTokenSaveFor(i, k, t) PROVE RegistryInv'
    BY <2>3, <1>3 DEF LpTokenSaveFor
  <2>4. ASSUME NEW S, LpGrantHostServices(S) PROVE RegistryInv'
    BY <2>4, <1>4 DEF LpGrantHostServices
  <2>5. ASSUME NEW a, NEW i, NEW t, AdoptCredentialFor(a, i, t) PROVE RegistryInv'
    BY <2>5, <1>3 DEF AdoptCredentialFor
  <2>6. ASSUME NEW a, AdoptCredential(a) PROVE RegistryInv'
    BY <2>6, <1>4 DEF AdoptCredential
  <2>7. ASSUME NEW i, ResetIdentity(i) PROVE RegistryInv'
    BY <2>7, <1>3 DEF ResetIdentity
  <2>8. ASSUME NEW c, ClientMiss(c) \/ ClientRejected(c) \/ ClientRefused(c) PROVE RegistryInv'
    BY <2>8, <1>4 DEF ClientMiss, ClientRejected, ClientRefused
  <2>9. ASSUME NEW c, NEW t, ClientMinted(c, t) PROVE RegistryInv'
    BY <2>9, <1>4 DEF ClientMinted
  <2> QED
    BY <1>1, <1>2, <1>5, <2>1, <2>2, <2>3, <2>4, <2>5, <2>6, <2>7, <2>8, <2>9 DEF Next
<1>6. ASSUME NEW p \in Providers, NewProxy(p) PROVE RegistryInv'
  BY <1>6, <1>3 DEF NewProxy
<1>7. ASSUME NEW p, NEW auth, NEW k, NEW t, InformModuleToken(p, auth, k, t) PROVE RegistryInv'
  BY <1>7, <1>4 DEF InformModuleToken, vars
<1>8. ASSUME NEW p, NEW stored, NEW ok, ProviderInformed(p, stored, ok) PROVE RegistryInv'
  BY <1>8, <1>4 DEF ProviderInformed
<1>9. ASSUME NEW p, NEW auth, Authorize(p, auth) PROVE RegistryInv'
  BY <1>9, <1>4 DEF Authorize, vars
<1>10. ASSUME NEW p, Dispatch(p) \/ Return(p) PROVE RegistryInv'
  BY <1>10, <1>4 DEF Dispatch, Return, vars
<1>11. CASE UNCHANGED allVars
  BY <1>11, <1>4 DEF allVars, vars
<1> QED
  BY <1>5, <1>6, <1>7, <1>8, <1>9, <1>10, <1>11 DEF ProxyNext

\* Two clients of one identity never work from different stores, for any number
\* of clients, threads and calls through the doors (isolateIdentity's refusal).
THEOREM NoSplitBrainAlways == ProxySpec => []NoSplitBrain
<1>1. ProxyInit => RegistryInv
  BY NamesAssumption
     DEF ProxyInit, Init, RegistryInv, NoSplitBrain, CapturedIsVended, StoreOf, IsIsolated,
         Stores, Shared
<1>2. RegistryInv => NoSplitBrain
  BY DEF RegistryInv
<1> QED
  BY <1>1, <1>2, RegistryStep, PTL DEF ProxySpec

-----------------------------------------------------------------------------
(* The caller a handler reads.                                             *)

Callers == Peers \cup Kinds

Frames == [who : Callers, previous : Callers]

\* The innermost frame is that of the caller in the slot, and every frame
\* remembers the caller of the frame below it.
Nested(s, caller) ==
  /\ caller = IF s = <<>> THEN "none" ELSE s[Len(s)].who
  /\ \A n \in 1..Len(s) : s[n].previous = IF n = 1 THEN "none" ELSE s[n - 1].who

ScopeInv ==
  /\ slot \in [Providers -> Callers]
  /\ frames \in [Providers -> Seq(Frames)]
  /\ \A p \in Providers : Nested(frames[p], slot[p])

\* CallerScope's constructor.
LEMMA NestedOpen ==
  ASSUME NEW s \in Seq(Frames), NEW caller \in Callers, NEW who \in Callers, Nested(s, caller)
  PROVE  LET f == [who |-> who, previous |-> caller]
         IN Append(s, f) \in Seq(Frames) /\ Nested(Append(s, f), who)
<1> DEFINE f == [who |-> who, previous |-> caller]
           t == Append(s, f)
<1>1. f \in Frames /\ Len(s) \in Nat /\ (s = <<>> <=> Len(s) = 0)
  BY EmptySeq DEF Frames
<1>2. /\ t \in Seq(Frames) /\ t # <<>> /\ Len(t) = Len(s) + 1
      /\ \A i \in 1..Len(s) : t[i] = s[i]
      /\ t[Len(s) + 1] = f
  <2> HIDE DEF f
  <2> QED
    BY <1>1, AppendProperties
<1> HIDE DEF t
<1>3. ASSUME NEW n \in 1..Len(t)
      PROVE  t[n].previous = IF n = 1 THEN "none" ELSE t[n - 1].who
  <2>1. CASE n \in 1..Len(s)
    BY <1>1, <1>2, <2>1 DEF Nested
  <2>2. CASE n = Len(s) + 1
    BY <1>1, <1>2, <2>2 DEF Nested
  <2> QED
    BY <1>1, <1>2, <2>1, <2>2
<1>4. t[Len(t)].who = who
  BY <1>2
<1> QED
  BY <1>2, <1>3, <1>4 DEF Nested, t

\* CallerScope's destructor.
LEMMA NestedClose ==
  ASSUME NEW s \in Seq(Frames), NEW caller, Nested(s, caller), Len(s) > 0
  PROVE  LET n == Len(s)
             t == SubSeq(s, 1, n - 1)
         IN t \in Seq(Frames) /\ s[n].previous \in Callers /\ Nested(t, s[n].previous)
<1> DEFINE n == Len(s)
           t == SubSeq(s, 1, n - 1)
<1>1. n \in Nat /\ n > 0 /\ \A i \in 1..n : s[i] \in Frames
  BY ElementOfSeq
<1>2. /\ t \in Seq(Frames) /\ Len(t) = n - 1
      /\ \A i \in 1..(n - 1) : t[i] = s[i]
  <2>1. \A i \in 1..(n - 1) : s[i] \in Frames
    BY <1>1
  <2>2. /\ t \in Seq(Frames)
        /\ Len(t) = IF 1 <= n - 1 THEN (n - 1) - 1 + 1 ELSE 0
        /\ \A i \in 1..((n - 1) - 1 + 1) : t[i] = s[1 + i - 1]
    BY <1>1, <2>1, SubSeqProperties
  <2> HIDE DEF t, n
  <2>3. Len(t) = n - 1
    BY <1>1, <2>2
  <2>4. \A i \in 1..(n - 1) : t[i] = s[i]
    BY <1>1, <2>2
  <2> QED
    BY <2>2, <2>3, <2>4
<1> HIDE DEF t
<1>3. t = <<>> <=> n = 1
  BY <1>1, <1>2, EmptySeq
<1>4. Nested(t, s[n].previous)
  BY <1>1, <1>2, <1>3 DEF Nested
<1>5. s[n].previous \in Callers
  BY <1>1 DEF Frames
<1> QED
  BY <1>2, <1>4, <1>5 DEF t

\* A single hit of the scan is one of the names that were looked at.
LEMMA CallerNameChosen ==
  ASSUME NEW hits, CallerName(hits) # "unknown"
  PROVE  CallerName(hits) \in hits \ BootstrapKeys
<1>1. Cardinality(hits) = 1 /\ hits \cap BootstrapKeys = {}
  BY DEF CallerName
<1>2. hits # {}
  BY <1>1, FS_EmptySet
<1> QED
  BY <1>1, <1>2 DEF CallerName

\* What authorize decides is a caller.
LEMMA JudgeType == ASSUME NEW p, NEW t, NEW cred PROVE Judge(p, t, cred) \in Callers
<1>1. CallerName(ModuleHits(p, t)) \in Peers \cup {"unknown"}
  BY CallerNameChosen DEF ModuleHits
<1> QED
  BY <1>1 DEF Judge, Rejected, Callers, Kinds

\* A call opens a scope above the ones that are open, and a return restores the
\* caller of the handler it returns to.
LEMMA ScopeStep == ScopeInv /\ [ProxyNext]_allVars => ScopeInv'
<1> SUFFICES ASSUME ScopeInv, [ProxyNext]_allVars PROVE ScopeInv'
  OBVIOUS
<1>1. ASSUME UNCHANGED <<slot, frames>> PROVE ScopeInv'
  BY <1>1 DEF ScopeInv
<1>2. ASSUME NEW p \in Providers, Dispatch(p) PROVE ScopeInv'
  <2> DEFINE who == Judge(p, gate[p].token, gate[p].cred)
             open == Append(frames[p], [who |-> who, previous |-> slot[p]])
  <2>1. open \in Seq(Frames) /\ Nested(open, who) /\ who \in Callers
    BY NestedOpen, JudgeType DEF ScopeInv
  <2>2. \/ UNCHANGED <<slot, frames>>
        \/ frames' = [frames EXCEPT ![p] = open] /\ slot' = [slot EXCEPT ![p] = who]
    BY <1>2 DEF Dispatch
  <2> HIDE DEF who, open
  <2> QED
    BY <1>1, <2>1, <2>2 DEF ScopeInv
<1>3. ASSUME NEW p \in Providers, Return(p) PROVE ScopeInv'
  <2> DEFINE n == Len(frames[p])
             rest == SubSeq(frames[p], 1, n - 1)
             previous == frames[p][n].previous
  <2>1. n > 0 /\ slot' = [slot EXCEPT ![p] = previous] /\ frames' = [frames EXCEPT ![p] = rest]
    BY <1>3 DEF Return, ScopeInv
  <2>2. rest \in Seq(Frames) /\ previous \in Callers /\ Nested(rest, previous)
    BY <2>1, NestedClose DEF ScopeInv
  <2> HIDE DEF rest, previous
  <2> QED
    BY <2>1, <2>2 DEF ScopeInv
<1>4. ASSUME NEW p, NewProxy(p) PROVE ScopeInv'
  BY <1>4, <1>1 DEF NewProxy
<1>5. ASSUME NEW p, NEW auth, NEW k, NEW t, InformModuleToken(p, auth, k, t) PROVE ScopeInv'
  BY <1>5, <1>1 DEF InformModuleToken
<1>6. ASSUME NEW p, NEW stored, NEW ok, ProviderInformed(p, stored, ok) PROVE ScopeInv'
  BY <1>6, <1>1 DEF ProviderInformed
<1>7. ASSUME NEW p, NEW auth, Authorize(p, auth) PROVE ScopeInv'
  BY <1>7, <1>1 DEF Authorize
<1>8. CASE UNCHANGED proxyVars
  BY <1>8, <1>1 DEF proxyVars
<1>9. CASE UNCHANGED allVars
  BY <1>9, <1>1 DEF allVars, proxyVars
<1> QED
  BY <1>2, <1>3, <1>4, <1>5, <1>6, <1>7, <1>8, <1>9 DEF ProxyNext

\* A handler reads its own caller for as long as it runs, however deep the
\* dispatches nested in it (CallerScope restores what it replaced).
THEOREM HandlerSeesItsCallerAlways == ProxySpec => []HandlerSeesItsCaller
<1>1. ProxyInit => ScopeInv
  <2>1. <<>> \in Seq(Frames) /\ Nested(<<>>, "none")
    BY EmptySeq DEF Nested
  <2>2. "none" \in Callers
    BY DEF Callers, Kinds
  <2> SUFFICES ASSUME ProxyInit PROVE ScopeInv
    OBVIOUS
  <2>3. slot = [p \in Providers |-> "none"] /\ frames = [p \in Providers |-> <<>>]
    BY DEF ProxyInit
  <2> QED
    BY <2>1, <2>2, <2>3, Zenon DEF ScopeInv
<1>2. ScopeInv => HandlerSeesItsCaller
  BY DEF ScopeInv, Nested, HandlerSeesItsCaller
<1> QED
  BY <1>1, <1>2, ScopeStep, PTL DEF ProxySpec

-----------------------------------------------------------------------------
(* Types, and what a door may write.                                       *)

Values == Tokens \cup {NoToken}

ProxyTypeOK ==
  /\ TypeOK
  /\ proxyStore \in [Providers -> Stores \cup {""}]
  /\ proxyTokens \in [Providers -> [Peers -> Values]]
  /\ gate \in [Providers -> [op : {"idle", "inform", "call"}, token : Values \cup {Operator},
                             caller : Peers \cup {""}, cred : Values]]
  /\ \A p \in Providers : gate[p].op = "inform" => gate[p].token \in Minted /\ gate[p].caller \in Peers
  /\ verdict \in [Providers -> [token : Values \cup {Operator}, who : Callers, cred : Values]]

\* The spellings of a key.
LEMMA KeySpellings ==
  /\ \A n \in Peers : Bare(n) \in StoreKeys /\ InboundKey(Bare(n)) \in StoreKeys
  /\ \A k \in StoreKeys : InboundKey(k) \in StoreKeys
  /\ \A k \in StoreKeys : k = Bare(k.name) \/ k = InboundKey(Bare(k.name))
  /\ \A k \in StoreKeys : IsReservedKey(k) <=> k.ns = "in"
  /\ \A n \in Peers : ~IsReservedKey(Bare(n))
BY DEF Bare, InboundKey, StoreKeys, IsReservedKey

StoreMaps == [Stores -> [StoreKeys -> Values]]

\* What the operations on one store's map return.
LEMMA StoreTypes ==
  ASSUME NEW ts \in StoreMaps, NEW s \in Stores, NEW k \in StoreKeys, NEW t \in Values
  PROVE  /\ SaveToken(ts, s, k, t) \in StoreMaps
         /\ RemoveToken(ts, s, k) \in StoreMaps
         /\ SaveInboundToken(ts, s, k, t) \in StoreMaps
         /\ ClearAllTokens(ts, s) \in StoreMaps
BY KeySpellings
   DEF SaveToken, RemoveToken, SaveInboundToken, ClearAllTokens, StoreMaps, EmptyStore, Values

\* forIdentity answers with a store, which may be born by it.
LEMMA VendedTypes ==
  ASSUME TypeOK, NEW i \in Names \cup {""}
  PROVE  StoreOf(i) \in Stores /\ WithStore(i) \in StoreMaps
BY DEF TypeOK, StoreOf, IsIsolated, Stores, WithStore, StoreMaps, EmptyStore, Values

\* A credential is a token or nothing.
LEMMA CredentialType == ASSUME TypeOK, NEW s \in Stores PROVE Credential(s) \in Values
<1>1. Bare("core") \in StoreKeys /\ Bare("capability_module") \in StoreKeys
  BY KeySpellings DEF Peers, BootstrapKeys
<1>2. tokens[s] \in [StoreKeys -> Values]
  BY DEF TypeOK, Values
<1> QED
  BY <1>1, <1>2 DEF Credential, CredentialIn

\* Every variable of the stores keeps its type in every step of theirs.
LEMMA StoresTypeStep == TypeOK /\ Next => TypeOK'
<1> SUFFICES ASSUME TypeOK, Next PROVE TypeOK'
  OBVIOUS
<1>0. ASSUME Called PROVE calls' \in 0..MaxCalls
  <2>1. calls \in 0..MaxCalls
    BY DEF TypeOK
  <2> QED
    BY <1>0, <2>1, BoundAssumption DEF Called
<1> USE DEF TypeOK, registry
<1>1. tokens \in StoreMaps
  BY DEF StoreMaps, Values
<1>2. ASSUME NEW i \in Names, IsolateIdentity(i) PROVE TypeOK'
  BY <1>2, <1>0 DEF IsolateIdentity
<1>3. ASSUME NEW k \in StoreKeys, NEW t \in Minted, LpTokenSave(k, t) PROVE TypeOK'
  <2>1. tokens' \in StoreMaps
    BY <1>1, <1>3, StoreTypes DEF LpTokenSave, Values, Tokens, Stores
  <2> QED
    BY <1>3, <2>1, <1>0 DEF LpTokenSave, StoreMaps, Values
<1>4. ASSUME NEW k \in StoreKeys, NEW t \in Minted, LpTokenSaveInbound(k, t) PROVE TypeOK'
  <2>1. tokens' \in StoreMaps
    BY <1>1, <1>4, StoreTypes DEF LpTokenSaveInbound, Values, Tokens, Stores
  <2> QED
    BY <1>4, <2>1, <1>0 DEF LpTokenSaveInbound, StoreMaps, Values
<1>5. ASSUME NEW i \in Names \cup {""}, ForIdentity(i)
      PROVE  isolated' \subseteq Names /\ created' \subseteq Names /\ vended' \subseteq Names \cup {""}
  BY <1>5, NamesAssumption DEF ForIdentity, IsIsolated
<1>6. ASSUME NEW i \in Names \cup {""}, LpTokenGetFor(i) PROVE TypeOK'
  BY <1>5, <1>6, VendedTypes, <1>0 DEF LpTokenGetFor, StoreMaps, Values
<1>7. ASSUME NEW i \in Names, NEW k \in StoreKeys, NEW t \in Minted, LpTokenSaveFor(i, k, t)
      PROVE  TypeOK'
  <2>1. tokens' \in StoreMaps
    BY <1>7, VendedTypes, StoreTypes DEF LpTokenSaveFor, Values, Tokens
  <2> QED
    BY <1>5, <1>7, <2>1, <1>0 DEF LpTokenSaveFor, StoreMaps, Values
<1>8. ASSUME NEW S \in SUBSET Services, LpGrantHostServices(S) PROVE TypeOK'
  BY <1>8, <1>0 DEF LpGrantHostServices
<1>9. ASSUME NEW a \in Adopters, NEW i \in Names, NEW t \in Creds \cup {HostAnchor},
             AdoptCredentialFor(a, i, t)
      PROVE  TypeOK'
  <2>1. adopt' \in [Adopters -> [id : Names \cup {""}, cred : Tokens \cup {NoToken},
                                next : BootstrapKeys \cup {"none"}]]
    BY <1>9 DEF AdoptCredentialFor, Tokens, BootstrapKeys
  <2> QED
    BY <1>5, <1>9, <2>1, VendedTypes, <1>0
       DEF AdoptCredentialFor, StoreMaps, Values
<1>10. ASSUME NEW a \in Adopters, AdoptCredential(a) PROVE TypeOK'
  <2>1. SaveToken(tokens, adopt[a].id, Bare(adopt[a].next), adopt[a].cred) \in StoreMaps
    BY <1>1 DEF SaveToken, StoreMaps, Values
  <2>2. adopt' \in [Adopters -> [id : Names \cup {""}, cred : Tokens \cup {NoToken},
                                next : BootstrapKeys \cup {"none"}]]
    BY <1>10 DEF AdoptCredential, NoAdoption, BootstrapKeys
  <2> QED
    BY <1>10, <2>1, <2>2 DEF AdoptCredential, StoreMaps, Values
<1>11. ASSUME NEW i \in Names, ResetIdentity(i) PROVE TypeOK'
  <2>1. tokens' \in StoreMaps
    BY <1>1, <1>11 DEF ResetIdentity, ClearAllTokens, StoreMaps, EmptyStore, Values
  <2> QED
    BY <1>5, <1>11, <2>1, <1>0 DEF ResetIdentity, StoreMaps, Values
<1>12. ASSUME NEW c \in Clients, NewClient(c) PROVE TypeOK'
  <2>1. ClientIdentity[c] \in Names \cup {""}
    BY NamesAssumption
  <2> QED
    BY <1>5, <1>12, <2>1, VendedTypes DEF NewClient, StoreMaps, Values
<1>13. ASSUME NEW c \in Clients,
              ClientMiss(c) \/ ClientRejected(c) \/ ClientRefused(c) PROVE TypeOK'
  <2>1. CASE ClientRejected(c)
    <3>1. tokens' \in StoreMaps
      BY <1>1, <2>1 DEF ClientRejected, RemoveToken, StoreMaps, Values
    <3> QED
      BY <2>1, <3>1, <1>0 DEF ClientRejected, StoreMaps, Values
  <2>2. CASE ClientMiss(c) \/ ClientRefused(c)
    BY <2>2 DEF ClientMiss, ClientRefused
  <2> QED
    BY <1>13, <2>1, <2>2
<1>14. ASSUME NEW c \in Clients, NEW t \in Minted, ClientMinted(c, t) PROVE TypeOK'
  <2>1. tokens' \in StoreMaps
    BY <1>1, <1>14 DEF ClientMinted, SaveToken, StoreMaps, Values, Tokens
  <2> QED
    BY <1>14, <2>1 DEF ClientMinted, StoreMaps, Values
<1> QED
  BY <1>2, <1>3, <1>4, <1>6, <1>7, <1>8, <1>9, <1>10, <1>11, <1>12, <1>13, <1>14 DEF Next

\* Every variable keeps its type in every step.
LEMMA ProxyTypeStep == ProxyTypeOK /\ [ProxyNext]_allVars => ProxyTypeOK'
<1> SUFFICES ASSUME ProxyTypeOK, [ProxyNext]_allVars PROVE ProxyTypeOK'
  OBVIOUS
<1>1. TypeOK
  BY DEF ProxyTypeOK
<1>2. ASSUME UNCHANGED vars PROVE TypeOK'
  BY <1>1, <1>2 DEF TypeOK, vars, registry
<1>3. CASE Next /\ UNCHANGED proxyVars
  BY <1>1, <1>3, StoresTypeStep DEF ProxyTypeOK, proxyVars
<1>4. ASSUME NEW p \in Providers, NewProxy(p) PROVE ProxyTypeOK'
  <2>1. p \in Names
    BY ProvidersAssumption
  <2>2. StoreOf(p) \in Stores /\ tokens' \in StoreMaps
    BY <1>1, <1>4, <2>1, VendedTypes DEF NewProxy
  <2>3. TypeOK'
    BY <1>1, <1>4, <2>1, <2>2 DEF NewProxy, TypeOK, ForIdentity, IsIsolated, StoreMaps, Values
  <2> QED
    BY <1>4, <2>2, <2>3 DEF NewProxy, ProxyTypeOK
<1>5. ASSUME NEW p \in Providers, NEW auth \in Creds \cup {HostAnchor}, NEW n \in Peers,
             NEW t \in Minted, InformModuleToken(p, auth, Bare(n), t)
      PROVE  ProxyTypeOK'
  <2>1. gate' = [gate EXCEPT ![p] = [op |-> "inform", token |-> t, caller |-> n, cred |-> auth]]
    BY <1>5 DEF InformModuleToken, Bare
  <2>2. TypeOK'
    BY <1>2, <1>5 DEF InformModuleToken
  <2>3. UNCHANGED <<proxyStore, proxyTokens, verdict>>
    BY <1>5 DEF InformModuleToken
  <2> QED
    BY <2>1, <2>2, <2>3 DEF ProxyTypeOK, Values, Tokens
<1>6. ASSUME NEW p \in Providers, NEW stored \in BOOLEAN, NEW ok \in BOOLEAN,
             ProviderInformed(p, stored, ok)
      PROVE  ProxyTypeOK'
  <2>1. tokens' \in StoreMaps
    <3>1. gate[p].token \in Values
      BY <1>6 DEF ProviderInformed, ProxyTypeOK, Values, Tokens
    <3> QED
      BY <1>1, <1>6, <3>1 DEF ProviderInformed, SaveInboundToken, TypeOK, StoreMaps, Values
  <2>2. TypeOK'
    BY <1>1, <1>6, <2>1 DEF ProviderInformed, TypeOK, registry, StoreMaps, Values
  <2>3. proxyTokens' \in [Providers -> [Peers -> Values]]
    BY <1>6 DEF ProviderInformed, ProxyTypeOK, Values, Tokens
  <2>4. gate' = [gate EXCEPT ![p] = Idle] /\ UNCHANGED <<proxyStore, verdict>>
    BY <1>6 DEF ProviderInformed
  <2> QED
    BY <2>2, <2>3, <2>4 DEF ProxyTypeOK, Idle, Values
<1>7. ASSUME NEW p \in Providers, NEW auth \in Tokens \cup {Operator}, Authorize(p, auth)
      PROVE  ProxyTypeOK'
  <2>1. proxyStore[p] \in Stores
    BY <1>7 DEF Authorize, Reached, ProxyTypeOK
  <2>2. Credential(proxyStore[p]) \in Values
    BY <1>1, <2>1, CredentialType
  <2> QED
    BY <1>2, <1>7, <2>2 DEF Authorize, ProxyTypeOK, Values
<1>8. ASSUME NEW p \in Providers, Dispatch(p) PROVE ProxyTypeOK'
  BY <1>2, <1>8, JudgeType DEF Dispatch, ProxyTypeOK, Idle, Values
<1>9. ASSUME NEW p \in Providers, Return(p) PROVE ProxyTypeOK'
  BY <1>2, <1>9 DEF Return, ProxyTypeOK
<1>10. CASE UNCHANGED allVars
  BY <1>2, <1>10 DEF allVars, proxyVars, ProxyTypeOK
<1> QED
  BY <1>3, <1>4, <1>5, <1>6, <1>7, <1>8, <1>9, <1>10 DEF ProxyNext

-----------------------------------------------------------------------------
(* Who was granted what.                                                   *)

\* What is on record in the inbound half of a store was granted.
StoreGrants(ts, granted) ==
  \A s \in Stores, k \in StoreKeys :
    k.ns = "in" /\ ts[s][k] # NoToken => <<s, k.name, ts[s][k]>> \in granted

\* What is on record, at a proxy or in a store's inbound half, was granted.
GrantsRecorded ==
  /\ \A p \in Providers, n \in Peers :
       proxyTokens[p][n] # NoToken => <<p, n, proxyTokens[p][n]>> \in issued
  /\ StoreGrants(tokens, issued)

\* Nothing is judged before the proxy has its store, and no call presents the
\* absence of a token.
GatesSet ==
  \A p \in Providers :
    /\ gate[p].op = "call" => gate[p].token # NoToken
    /\ gate[p].op # "idle" \/ verdict[p].who # "none" => proxyStore[p] # ""

GrantInv == ProxyTypeOK /\ GrantsRecorded /\ GatesSet /\ AcceptedWasIssued /\ NamedCallerWasIssued

\* What authorize accepts was granted, and so was the name it accepts it under.
LEMMA JudgedIsGranted ==
  ASSUME GrantsRecorded, ProxyTypeOK, NEW p \in Providers, proxyStore[p] # "",
         NEW t, t # NoToken, NEW cred
  PROVE  LET who == Judge(p, t, cred) IN
         /\ who # Rejected =>
              \/ t = Operator
              \/ who = "host" /\ t = cred
              \/ \E n \in Peers : <<p, n, t>> \in issued \/ <<proxyStore[p], n, t>> \in issued
         /\ who \in Peers => who \in Names /\ <<p, who, t>> \in issued
<1> DEFINE hits == ModuleHits(p, t)
           who == Judge(p, t, cred)
<1>1. \A n \in hits : n \in Peers /\ <<p, n, t>> \in issued
  BY DEF ModuleHits, GrantsRecorded
<1>2. ASSUME InStore(proxyStore[p], t)
      PROVE  \E n \in Peers : <<proxyStore[p], n, t>> \in issued
  <2>1. PICK k \in StoreKeys : k.ns = "in" /\ tokens[proxyStore[p]][k] = t
    BY <1>2 DEF InStore
  <2>2. proxyStore[p] \in Stores /\ k.name \in Peers
    BY <2>1 DEF ProxyTypeOK, StoreKeys
  <2> QED
    BY <2>1, <2>2 DEF GrantsRecorded, StoreGrants
<1>3. CASE cred # NoToken /\ t = cred
  <2>1. who = "host"
    BY <1>3 DEF Judge
  <2>2. "host" \notin Peers
    BY ProvidersAssumption DEF Peers, Kinds, BootstrapKeys
  <2> QED
    BY <1>3, <2>1, <2>2
<1>4. CASE ~(cred # NoToken /\ t = cred) /\ (hits # {} \/ InStore(proxyStore[p], t) \/ t = Operator)
  <2>1. who = CallerName(hits)
    BY <1>4 DEF Judge
  <2>2. "unknown" \notin Peers
    BY ProvidersAssumption DEF Peers, Kinds, BootstrapKeys
  <2>3. who \in Peers => who \in hits \ BootstrapKeys
    BY <2>1, <2>2, CallerNameChosen
  <2>4. who \in Peers => who \in Names /\ <<p, who, t>> \in issued
    BY <1>1, <2>3 DEF Peers
  <2>5. \/ t = Operator
        \/ \E n \in Peers : <<p, n, t>> \in issued \/ <<proxyStore[p], n, t>> \in issued
    BY <1>1, <1>2, <1>4
  <2> QED
    BY <2>4, <2>5
<1>5. CASE ~(cred # NoToken /\ t = cred) /\ ~(hits # {} \/ InStore(proxyStore[p], t) \/ t = Operator)
  <2>1. who = Rejected
    BY <1>5 DEF Judge
  <2>2. Rejected \notin Peers
    BY ProvidersAssumption DEF Peers, Kinds, BootstrapKeys, Rejected
  <2> QED
    BY <2>1, <2>2
<1> QED
  BY <1>3, <1>4, <1>5

\* An operation on the outbound half grants nothing, and one on the inbound half
\* grants what it writes.
LEMMA StoreWrites ==
  ASSUME NEW ts \in StoreMaps, NEW granted, StoreGrants(ts, granted), NEW s, NEW k, NEW t
  PROVE  /\ StoreGrants(SaveToken(ts, s, k, t), granted)
         /\ StoreGrants(RemoveToken(ts, s, k), granted)
         /\ StoreGrants(ClearAllTokens(ts, s), granted)
         /\ StoreGrants(SaveInboundToken(ts, s, k, t), granted \cup {<<s, k.name, t>>})
<1>1. StoreGrants(SaveToken(ts, s, k, t), granted)
  BY DEF StoreGrants, SaveToken, IsReservedKey, StoreMaps
<1>2. StoreGrants(RemoveToken(ts, s, k), granted)
  BY DEF StoreGrants, RemoveToken, IsReservedKey, StoreMaps
<1>3. StoreGrants(ClearAllTokens(ts, s), granted)
  BY DEF StoreGrants, ClearAllTokens, EmptyStore, StoreMaps
<1>4. StoreGrants(SaveInboundToken(ts, s, k, t), granted \cup {<<s, k.name, t>>})
  BY DEF StoreGrants, SaveInboundToken, IsReservedKey, InboundKey, StoreMaps, StoreKeys
<1> QED
  BY <1>1, <1>2, <1>3, <1>4

\* The stores' own steps: what is on record was granted, and no grant is forgotten.
LEMMA StoreGrantStep ==
  ASSUME TypeOK, Next, StoreGrants(tokens, issued)
  PROVE  StoreGrants(tokens', issued') /\ issued \subseteq issued'
<1> DEFINE Goal == StoreGrants(tokens', issued') /\ issued \subseteq issued'
<1>1. tokens \in StoreMaps
  BY DEF TypeOK, StoreMaps, Values
<1>2. ASSUME NEW i \in Names \cup {""} PROVE WithStore(i) \in StoreMaps /\ StoreGrants(WithStore(i), issued)
  <2>1. WithStore(i) = tokens \/ WithStore(i) = ClearAllTokens(tokens, i)
    BY DEF WithStore, ClearAllTokens
  <2> QED
    BY <1>1, <1>2, <2>1, StoreWrites, VendedTypes
<1>3. ASSUME UNCHANGED <<tokens, issued>> PROVE Goal
  BY <1>3
<1>4. ASSUME NEW i \in Names \cup {""}, tokens' = WithStore(i), UNCHANGED issued PROVE Goal
  BY <1>2, <1>4
<1>5. ASSUME NEW i, IsolateIdentity(i) PROVE Goal
  BY <1>3, <1>5 DEF IsolateIdentity
<1>6. ASSUME NEW k, NEW t, LpTokenSave(k, t) PROVE Goal
  BY <1>1, <1>6, StoreWrites DEF LpTokenSave
<1>7. ASSUME NEW k \in StoreKeys, NEW t \in Minted, LpTokenSaveInbound(k, t) PROVE Goal
  <2> DEFINE in == SaveInboundToken(tokens, Shared, k, t)
  <2>1. in \in StoreMaps
    BY <1>1, StoreTypes DEF Stores, Values, Tokens
  <2>2. issued' = issued \cup {<<Shared, k.name, t>>}
    BY <1>7 DEF LpTokenSaveInbound
  <2>3. StoreGrants(in, issued')
    BY <1>1, <2>2, StoreWrites
  <2> HIDE DEF in
  <2>4. tokens' = in \/ tokens' = SaveToken(in, Shared, k, t)
    BY <1>7 DEF LpTokenSaveInbound, in
  <2>5. StoreGrants(SaveToken(in, Shared, k, t), issued')
    BY <2>1, <2>3, StoreWrites
  <2> QED
    BY <2>2, <2>3, <2>4, <2>5
<1>8. ASSUME NEW i \in Names \cup {""}, LpTokenGetFor(i) PROVE Goal
  BY <1>4, <1>8 DEF LpTokenGetFor
<1>9. ASSUME NEW i \in Names, NEW k, NEW t, LpTokenSaveFor(i, k, t) PROVE Goal
  BY <1>2, <1>9, StoreWrites DEF LpTokenSaveFor
<1>10. ASSUME NEW S, LpGrantHostServices(S) PROVE Goal
  BY <1>3, <1>10 DEF LpGrantHostServices
<1>11. ASSUME NEW a, NEW i \in Names, NEW t, AdoptCredentialFor(a, i, t) PROVE Goal
  BY <1>4, <1>11 DEF AdoptCredentialFor
<1>12. ASSUME NEW a, AdoptCredential(a) PROVE Goal
  BY <1>1, <1>12, StoreWrites DEF AdoptCredential
<1>13. ASSUME NEW i, ResetIdentity(i) PROVE Goal
  BY <1>1, <1>13, StoreWrites DEF ResetIdentity
<1>14. ASSUME NEW c \in Clients, NewClient(c) PROVE Goal
  <2>1. ClientIdentity[c] \in Names \cup {""}
    BY NamesAssumption
  <2> QED
    BY <1>4, <1>14, <2>1 DEF NewClient
<1>15. ASSUME NEW c, ClientMiss(c) \/ ClientRefused(c) PROVE Goal
  BY <1>3, <1>15 DEF ClientMiss, ClientRefused
<1>16. ASSUME NEW c, ClientRejected(c) PROVE Goal
  BY <1>1, <1>16, StoreWrites DEF ClientRejected
<1>17. ASSUME NEW c, NEW t, ClientMinted(c, t) PROVE Goal
  BY <1>1, <1>17, StoreWrites DEF ClientMinted
<1> QED
  BY <1>5, <1>6, <1>7, <1>8, <1>9, <1>10, <1>11, <1>12, <1>13, <1>14, <1>15, <1>16, <1>17 DEF Next

\* What a proxy decided stays justified: grants are never taken back.
LEMMA GrantFrame ==
  ASSUME GrantInv, ProxyTypeOK', StoreGrants(tokens', issued'), issued \subseteq issued',
         UNCHANGED <<proxyStore, proxyTokens, gate, verdict>>
  PROVE  GrantInv'
<1>1. GrantsRecorded'
  BY DEF GrantInv, GrantsRecorded
<1>2. GatesSet'
  BY DEF GrantInv, GatesSet
<1>3. AcceptedWasIssued'
  BY DEF GrantInv, AcceptedWasIssued
<1>4. NamedCallerWasIssued'
  BY DEF GrantInv, NamedCallerWasIssued
<1> QED
  BY <1>1, <1>2, <1>3, <1>4 DEF GrantInv

\* Every step keeps GrantInv.
LEMMA GrantStep == GrantInv /\ [ProxyNext]_allVars => GrantInv'
<1> SUFFICES ASSUME GrantInv, [ProxyNext]_allVars PROVE GrantInv'
  OBVIOUS
<1>1. ProxyTypeOK /\ ProxyTypeOK' /\ StoreGrants(tokens, issued)
  BY ProxyTypeStep DEF GrantInv, GrantsRecorded
<1>2. CASE Next /\ UNCHANGED proxyVars
  BY <1>1, <1>2, StoreGrantStep, GrantFrame DEF ProxyTypeOK, proxyVars
<1>3. ASSUME NEW p \in Providers, NewProxy(p) PROVE GrantInv'
  <2>1. p \in Names \cup {""} /\ tokens \in StoreMaps
    BY <1>1, ProvidersAssumption DEF ProxyTypeOK, TypeOK, StoreMaps, Values
  <2>2. tokens' = tokens \/ tokens' = ClearAllTokens(tokens, p)
    BY <1>3 DEF NewProxy, WithStore, ClearAllTokens
  <2>3. StoreGrants(tokens', issued') /\ UNCHANGED issued
    BY <1>1, <1>3, <2>1, <2>2, StoreWrites DEF NewProxy
  <2>4. gate[p].op = "idle" /\ verdict[p].who = "none"
    BY <1>3 DEF NewProxy, GrantInv, GatesSet
  <2>5. GrantsRecorded'
    BY <1>3, <2>3 DEF NewProxy, GrantInv, GrantsRecorded
  <2>6. GatesSet'
    BY <1>1, <1>3, <2>4 DEF NewProxy, GrantInv, GatesSet, ProxyTypeOK
  <2>7. AcceptedWasIssued'
    BY <1>1, <1>3, <2>3, <2>4 DEF NewProxy, GrantInv, AcceptedWasIssued, ProxyTypeOK
  <2>8. NamedCallerWasIssued'
    BY <1>3, <2>3 DEF NewProxy, GrantInv, NamedCallerWasIssued
  <2> QED
    BY <1>1, <2>5, <2>6, <2>7, <2>8 DEF GrantInv
<1>4. ASSUME NEW p \in Providers, NEW auth \in Creds \cup {HostAnchor}, NEW n \in Peers,
             NEW t \in Minted, InformModuleToken(p, auth, Bare(n), t)
      PROVE  GrantInv'
  <2>1. /\ proxyStore[p] # "" /\ gate'[p].op = "inform"
        /\ \A q \in Providers \ {p} : gate'[q] = gate[q]
        /\ UNCHANGED <<tokens, issued, proxyStore, proxyTokens, verdict>>
    BY <1>1, <1>4 DEF InformModuleToken, Reached, vars, ProxyTypeOK
  <2>2. GrantsRecorded' /\ GatesSet' /\ AcceptedWasIssued' /\ NamedCallerWasIssued'
    BY <2>1 DEF GrantInv, GrantsRecorded, GatesSet, AcceptedWasIssued, NamedCallerWasIssued
  <2> QED
    BY <1>1, <2>2 DEF GrantInv
<1>5. ASSUME NEW p \in Providers, NEW stored \in BOOLEAN, NEW ok \in BOOLEAN,
             ProviderInformed(p, stored, ok)
      PROVE  GrantInv'
  <2> DEFINE g == gate[p]
             st == {<<proxyStore[p], g.caller, g.token>>}
             pr == {<<p, g.caller, g.token>>}
  <2>1. tokens \in StoreMaps /\ issued \subseteq issued'
    BY <1>1, <1>5 DEF ProviderInformed, ProxyTypeOK, TypeOK, StoreMaps, Values
  <2>2. StoreGrants(tokens', issued')
    <3>1. CASE stored
      <4>1. tokens' = SaveInboundToken(tokens, proxyStore[p], Bare(g.caller), g.token)
        BY <1>5, <3>1 DEF ProviderInformed
      <4>2. Bare(g.caller).name = g.caller
        BY DEF Bare
      <4>3. StoreGrants(tokens', issued \cup st)
        BY <1>1, <2>1, <4>1, <4>2, StoreWrites
      <4>4. issued \cup st \subseteq issued'
        BY <1>5, <3>1 DEF ProviderInformed
      <4> QED
        BY <4>3, <4>4 DEF StoreGrants
    <3>2. CASE ~stored
      BY <1>1, <1>5, <2>1, <3>2 DEF ProviderInformed, StoreGrants
    <3> QED
      BY <3>1, <3>2
  <2>3. ASSUME NEW q \in Providers, NEW n \in Peers, proxyTokens'[q][n] # NoToken
        PROVE  <<q, n, proxyTokens'[q][n]>> \in issued'
    <3>1. CASE ok /\ q = p /\ n = g.caller
      BY <1>1, <1>5, <3>1 DEF ProviderInformed, ProxyTypeOK
    <3>2. CASE ~(ok /\ q = p /\ n = g.caller)
      <4>1. proxyTokens'[q][n] = proxyTokens[q][n]
        <5>1. \/ proxyTokens' = proxyTokens
              \/ ok /\ proxyTokens' = [proxyTokens EXCEPT ![p][g.caller] = g.token]
          BY <1>5 DEF ProviderInformed
        <5>2. proxyTokens \in [Providers -> [Peers -> Values]]
          BY <1>1 DEF ProxyTypeOK
        <5> HIDE DEF g
        <5> QED
          BY <3>2, <5>1, <5>2
      <4> QED
        BY <2>1, <2>3, <4>1 DEF GrantInv, GrantsRecorded
    <3> QED
      BY <3>1, <3>2
  <2>4. GrantsRecorded'
    BY <2>2, <2>3 DEF GrantsRecorded
  <2>5. /\ gate'[p].op = "idle" /\ \A q \in Providers \ {p} : gate'[q] = gate[q]
        /\ UNCHANGED <<proxyStore, verdict>>
    BY <1>1, <1>5 DEF ProviderInformed, ProxyTypeOK, Idle
  <2>6. GatesSet'
    BY <2>5 DEF GrantInv, GatesSet
  <2>7. AcceptedWasIssued' /\ NamedCallerWasIssued'
    BY <2>1, <2>5 DEF GrantInv, AcceptedWasIssued, NamedCallerWasIssued
  <2> QED
    BY <1>1, <2>4, <2>6, <2>7 DEF GrantInv
<1>6. ASSUME NEW p \in Providers, NEW auth \in Tokens \cup {Operator}, Authorize(p, auth)
      PROVE  GrantInv'
  <2>1. auth # NoToken
    BY TokensAssumption, ProvidersAssumption
  <2>2. /\ proxyStore[p] # "" /\ gate'[p].op = "call" /\ gate'[p].token = auth
        /\ \A q \in Providers \ {p} : gate'[q] = gate[q]
        /\ UNCHANGED <<tokens, issued, proxyStore, proxyTokens, verdict>>
    BY <1>1, <1>6 DEF Authorize, Reached, vars, ProxyTypeOK
  <2>3. GrantsRecorded' /\ GatesSet' /\ AcceptedWasIssued' /\ NamedCallerWasIssued'
    BY <2>1, <2>2 DEF GrantInv, GrantsRecorded, GatesSet, AcceptedWasIssued, NamedCallerWasIssued
  <2> QED
    BY <1>1, <2>3 DEF GrantInv
<1>7. ASSUME NEW p \in Providers, Dispatch(p) PROVE GrantInv'
  <2> DEFINE g == gate[p]
             who == Judge(p, g.token, g.cred)
  <2>1. proxyStore[p] # "" /\ g.token # NoToken
    BY <1>7 DEF Dispatch, GrantInv, GatesSet
  <2>2. /\ who # Rejected =>
             \/ g.token = Operator
             \/ who = "host" /\ g.token = g.cred
             \/ \E n \in Peers : \/ <<p, n, g.token>> \in issued
                                 \/ <<proxyStore[p], n, g.token>> \in issued
        /\ who \in Peers => who \in Names /\ <<p, who, g.token>> \in issued
    BY <1>1, <2>1, JudgedIsGranted DEF GrantInv
  <2>3. /\ verdict'[p] = [token |-> g.token, who |-> who, cred |-> g.cred]
        /\ gate'[p].op = "idle"
        /\ \A q \in Providers \ {p} : gate'[q] = gate[q] /\ verdict'[q] = verdict[q]
        /\ UNCHANGED <<tokens, issued, proxyStore, proxyTokens>>
    BY <1>1, <1>7 DEF Dispatch, vars, ProxyTypeOK, Idle
  <2> HIDE DEF who
  <2>4. GrantsRecorded' /\ GatesSet'
    BY <2>1, <2>3 DEF GrantInv, GrantsRecorded, GatesSet
  <2>5. AcceptedWasIssued'
    BY <2>2, <2>3 DEF GrantInv, AcceptedWasIssued
  <2>6. NamedCallerWasIssued'
    BY <2>2, <2>3 DEF GrantInv, NamedCallerWasIssued
  <2> QED
    BY <1>1, <2>4, <2>5, <2>6 DEF GrantInv
<1>8. ASSUME NEW p \in Providers, Return(p) PROVE GrantInv'
  BY <1>1, <1>8, GrantFrame DEF Return, vars
<1>9. CASE UNCHANGED allVars
  BY <1>1, <1>9, GrantFrame DEF allVars, vars, proxyVars
<1> QED
  BY <1>2, <1>3, <1>4, <1>5, <1>6, <1>7, <1>8, <1>9 DEF ProxyNext

\* The initial states have no grant and no verdict.
LEMMA GrantStart == ProxyInit => GrantInv
<1> SUFFICES ASSUME ProxyInit PROVE GrantInv
  OBVIOUS
<1>1. TypeOK
  <2>1. tokens \in [Stores -> [StoreKeys -> Tokens \cup {NoToken}]]
    BY DEF ProxyInit, Init, Tokens
  <2>2. adopt \in [Adopters -> [id : Names \cup {""}, cred : Tokens \cup {NoToken},
                                next : BootstrapKeys \cup {"none"}]]
    BY DEF ProxyInit, Init, NoAdoption
  <2>3. calls = 0
    BY DEF ProxyInit, Init
  <2>4. calls \in 0..MaxCalls
    BY <2>3, BoundAssumption
  <2> QED
    BY <2>1, <2>2, <2>4 DEF ProxyInit, Init, TypeOK
<1>2. ProxyTypeOK
  BY <1>1 DEF ProxyInit, ProxyTypeOK, Idle, NoVerdict, Values, Callers, Kinds
<1>3. StoreGrants(tokens, issued)
  <2>1. ASSUME NEW s \in Stores, NEW k \in StoreKeys, k.ns = "in" PROVE tokens[s][k] = NoToken
    <3>1. k \notin {Bare(n) : n \in BootstrapKeys}
      BY <2>1 DEF Bare
    <3> QED
      BY <3>1 DEF ProxyInit, Init
  <2> QED
    BY <2>1 DEF StoreGrants
<1>4. GrantsRecorded
  BY <1>3 DEF ProxyInit, GrantsRecorded
<1>5. \A p \in Providers : gate[p] = Idle /\ verdict[p] = NoVerdict
  BY DEF ProxyInit
<1>6. GatesSet
  <2>1. Idle.op = "idle" /\ NoVerdict.who = "none"
    BY DEF Idle, NoVerdict
  <2> QED
    BY <1>5, <2>1 DEF GatesSet
<1>7. "none" \notin Peers
  BY ProvidersAssumption DEF Kinds, Peers, BootstrapKeys
<1>8. AcceptedWasIssued /\ NamedCallerWasIssued
  BY <1>5, <1>7 DEF AcceptedWasIssued, NamedCallerWasIssued, NoVerdict
<1> QED
  BY <1>2, <1>4, <1>6, <1>8 DEF GrantInv

-----------------------------------------------------------------------------
(* The host's anchor.  lp_token_save of a bootstrap key, or a client of a    *)
(* module that is called like one (mintAndCacheToken after a rejection), may *)
(* overwrite it in the shared store, and then adoptCredentialFor no longer   *)
(* recognises it: what follows holds while it is in place.                   *)

InPlace(ts) == ts[Shared][Bare("core")] = HostAnchor

\* While the shared store holds the anchor no private one does.
BootAnchors(ts) ==
  InPlace(ts) => \A i \in Names, b \in BootstrapKeys : ts[i][Bare(b)] # HostAnchor

\* What is being adopted goes to a private store, and is not the anchor.
Adopting ==
  \A a \in Adopters : adopt[a].next # "none" =>
    adopt[a].id \in Names /\ (InPlace(tokens) => adopt[a].cred # HostAnchor)

AnchorInv ==
  /\ BootAnchors(tokens) /\ Adopting
  /\ InPlace(tokens) => \A p \in Providers :
       gate[p].op = "call" /\ proxyStore[p] # Shared => gate[p].cred # HostAnchor
  /\ AnchorIsNotPrivate

\* A change of the stores that puts the anchor nowhere.
Keeps(ts, new) == BootAnchors(new) /\ (InPlace(new) => InPlace(ts))

\* What the operations on a store do to the credentials.
LEMMA AnchorWrites ==
  ASSUME NEW ts \in StoreMaps, BootAnchors(ts)
  PROVE  /\ \A s \in Stores, k \in StoreKeys, t \in Values \ {HostAnchor} :
              Keeps(ts, SaveToken(ts, s, k, t)) /\ Keeps(ts, RemoveToken(ts, s, k))
         /\ \A i \in Names, b \in BootstrapKeys, t \in Values : (InPlace(ts) => t # HostAnchor) =>
              Keeps(ts, SaveToken(ts, i, Bare(b), t))
         /\ \A i \in Names : Keeps(ts, ClearAllTokens(ts, i))
         /\ \A s \in Stores, k \in StoreKeys, t \in Values : Keeps(ts, SaveInboundToken(ts, s, k, t))
<1>1. /\ Bare("core") \in StoreKeys /\ \A b \in BootstrapKeys : Bare(b) \in StoreKeys
      /\ Shared \in Stores /\ \A i \in Names : i \in Stores /\ i # Shared
  BY KeySpellings, NamesAssumption DEF Peers, BootstrapKeys, Stores
<1>2. NoToken # HostAnchor
  BY TokensAssumption DEF Tokens
<1>3. ASSUME NEW s \in Stores, NEW k \in StoreKeys, NEW t \in (Values \ {HostAnchor}) \cup {NoToken},
             NEW new, new = [ts EXCEPT ![s][k] = t]
      PROVE  Keeps(ts, new)
  <2>1. \A i \in Stores, b \in StoreKeys : new[i][b] = ts[i][b] \/ new[i][b] = t
    BY <1>3 DEF StoreMaps
  <2>2. t # HostAnchor
    BY <1>2
  <2> QED
    BY <1>1, <2>1, <2>2 DEF Keeps, InPlace, BootAnchors
<1>4. ASSUME NEW s \in Stores, NEW k \in StoreKeys, NEW t \in Values \ {HostAnchor}
      PROVE  Keeps(ts, SaveToken(ts, s, k, t)) /\ Keeps(ts, RemoveToken(ts, s, k))
  <2>1. Keeps(ts, ts)
    BY DEF Keeps
  <2> QED
    BY <1>3, <2>1 DEF SaveToken, RemoveToken
<1>5. ASSUME NEW i \in Names, NEW b \in BootstrapKeys, NEW t \in Values,
             InPlace(ts) => t # HostAnchor
      PROVE  Keeps(ts, SaveToken(ts, i, Bare(b), t))
  <2>1. PICK new : new = SaveToken(ts, i, Bare(b), t)
    OBVIOUS
  <2>2. /\ new[Shared] = ts[Shared]
        /\ \A j \in Names, c \in BootstrapKeys : new[j][Bare(c)] \in {ts[j][Bare(c)], t}
    BY <1>1, <2>1 DEF SaveToken, IsReservedKey, Bare, StoreMaps
  <2>3. Keeps(ts, new)
    BY <1>5, <2>2 DEF Keeps, InPlace, BootAnchors
  <2> QED
    BY <2>1, <2>3
<1>6. ASSUME NEW i \in Names PROVE Keeps(ts, ClearAllTokens(ts, i))
  BY <1>1, <1>2 DEF Keeps, InPlace, BootAnchors, ClearAllTokens, EmptyStore, StoreMaps
<1>7. ASSUME NEW s \in Stores, NEW k \in StoreKeys, NEW t \in Values
      PROVE  Keeps(ts, SaveInboundToken(ts, s, k, t))
  <2>1. \A b \in BootstrapKeys : InboundKey(k) # Bare(b)
    BY DEF InboundKey, Bare
  <2> QED
    BY <1>1, <2>1 DEF Keeps, InPlace, BootAnchors, SaveInboundToken, StoreMaps, BootstrapKeys
<1> QED
  BY <1>4, <1>5, <1>6, <1>7

\* The stores' own steps put the anchor nowhere, and adopt another value.
LEMMA StoreAnchorStep ==
  ASSUME TypeOK, Next, BootAnchors(tokens), Adopting
  PROVE  Keeps(tokens, tokens') /\ Adopting'
<1> DEFINE Goal == Keeps(tokens, tokens') /\ Adopting'
<1>1. /\ tokens \in StoreMaps /\ Minted \subseteq Values \ {HostAnchor}
      /\ Stores = Names \cup {Shared} /\ Keeps(tokens, tokens)
  BY TokensAssumption DEF TypeOK, StoreMaps, Values, Tokens, Stores, Keeps
<1>2. ASSUME NEW i \in Names \cup {""} PROVE WithStore(i) \in StoreMaps /\ Keeps(tokens, WithStore(i))
  <2>1. WithStore(i) = tokens \/ (i \in Names /\ WithStore(i) = ClearAllTokens(tokens, i))
    BY DEF WithStore, ClearAllTokens, IsIsolated, TypeOK
  <2> QED
    BY <1>1, <1>2, <2>1, AnchorWrites, VendedTypes
<1>3. ASSUME UNCHANGED adopt, Keeps(tokens, tokens') PROVE Goal
  BY <1>3 DEF Keeps, Adopting
<1>4. ASSUME UNCHANGED <<tokens, adopt>> PROVE Goal
  BY <1>1, <1>3, <1>4
<1>5. ASSUME NEW i, IsolateIdentity(i) PROVE Goal
  BY <1>4, <1>5 DEF IsolateIdentity
<1>6. ASSUME NEW k \in StoreKeys, NEW t \in Minted, LpTokenSave(k, t) PROVE Goal
  BY <1>1, <1>3, <1>6, AnchorWrites DEF LpTokenSave
<1>7. ASSUME NEW k \in StoreKeys, NEW t \in Minted, LpTokenSaveInbound(k, t) PROVE Goal
  <2>1. PICK in : in = SaveInboundToken(tokens, Shared, k, t)
    OBVIOUS
  <2>2. in \in StoreMaps /\ Keeps(tokens, in)
    BY <1>1, <2>1, StoreTypes, AnchorWrites
  <2>3. tokens' = in \/ tokens' = SaveToken(in, Shared, k, t)
    BY <1>7, <2>1 DEF LpTokenSaveInbound
  <2>4. Keeps(in, SaveToken(in, Shared, k, t))
    BY <1>1, <2>2, AnchorWrites DEF Keeps
  <2>5. Keeps(tokens, tokens')
    BY <2>2, <2>3, <2>4 DEF Keeps
  <2> QED
    BY <1>3, <1>7, <2>5 DEF LpTokenSaveInbound
<1>8. ASSUME NEW i \in Names \cup {""}, LpTokenGetFor(i) PROVE Goal
  BY <1>2, <1>3, <1>8 DEF LpTokenGetFor
<1>9. ASSUME NEW i \in Names, NEW k \in StoreKeys, NEW t \in Minted, LpTokenSaveFor(i, k, t)
      PROVE  Goal
  <2>1. StoreOf(i) \in Stores
    BY VendedTypes
  <2>2. PICK with : with = WithStore(i)
    OBVIOUS
  <2>3. with \in StoreMaps /\ Keeps(tokens, with)
    BY <1>2, <2>2
  <2>4. Keeps(with, SaveToken(with, StoreOf(i), k, t))
    BY <1>1, <2>1, <2>3, AnchorWrites DEF Keeps
  <2>5. Keeps(tokens, tokens')
    BY <1>9, <2>2, <2>3, <2>4 DEF LpTokenSaveFor, Keeps
  <2> QED
    BY <1>3, <1>9, <2>5 DEF LpTokenSaveFor
<1>10. ASSUME NEW S, LpGrantHostServices(S) PROVE Goal
  BY <1>4, <1>10 DEF LpGrantHostServices
<1>11. ASSUME NEW a \in Adopters, NEW i \in Names, NEW t \in Creds \cup {HostAnchor},
              AdoptCredentialFor(a, i, t)
       PROVE  Goal
  <2>1. InPlace(tokens) => Credential(Shared) = HostAnchor
    BY TokensAssumption DEF Credential, CredentialIn, InPlace, Tokens
  <2>2. InPlace(tokens) => t # HostAnchor
    BY <1>11, <2>1 DEF AdoptCredentialFor
  <2>3. Keeps(tokens, tokens')
    BY <1>2, <1>11 DEF AdoptCredentialFor
  <2>4. Adopting'
    BY <1>11, <2>2, <2>3 DEF AdoptCredentialFor, TypeOK, Adopting, Keeps
  <2> QED
    BY <2>3, <2>4
<1>12. ASSUME NEW a \in Adopters, AdoptCredential(a) PROVE Goal
  <2> DEFINE d == adopt[a]
  <2>1. /\ d.next \in BootstrapKeys /\ d.id \in Names /\ d.cred \in Values
        /\ InPlace(tokens) => d.cred # HostAnchor
        /\ tokens' = SaveToken(tokens, d.id, Bare(d.next), d.cred)
    BY <1>12 DEF AdoptCredential, TypeOK, Values, Adopting
  <2>2. Keeps(tokens, tokens')
    BY <1>1, <2>1, AnchorWrites
  <2>3. Adopting'
    BY <1>12, <2>2 DEF AdoptCredential, TypeOK, NoAdoption, Adopting, Keeps
  <2> QED
    BY <2>2, <2>3
<1>13. ASSUME NEW i \in Names, ResetIdentity(i) PROVE Goal
  BY <1>1, <1>3, <1>13, AnchorWrites DEF ResetIdentity
<1>14. ASSUME NEW c \in Clients, NewClient(c) PROVE Goal
  <2>1. ClientIdentity[c] \in Names \cup {""}
    BY NamesAssumption
  <2> QED
    BY <1>2, <1>3, <1>14, <2>1 DEF NewClient
<1>15. ASSUME NEW c, ClientMiss(c) \/ ClientRefused(c) PROVE Goal
  BY <1>4, <1>15 DEF ClientMiss, ClientRefused
<1>16. ASSUME NEW c \in Clients PROVE Bare(ClientTarget[c]) \in StoreKeys
  BY NamesAssumption, KeySpellings
<1>17. ASSUME NEW c \in Clients, NEW t \in Minted, ClientMinted(c, t) PROVE Goal
  <2>1. held[c] \in Stores /\ tokens' = SaveToken(tokens, held[c], Bare(ClientTarget[c]), t)
    BY <1>17 DEF ClientMinted, TypeOK
  <2> QED
    BY <1>1, <1>3, <1>16, <1>17, <2>1, AnchorWrites DEF ClientMinted
<1>18. ASSUME NEW c \in Clients, ClientRejected(c) PROVE Goal
  <2>1. held[c] \in Stores /\ tokens' = RemoveToken(tokens, held[c], Bare(ClientTarget[c]))
    BY <1>18 DEF ClientRejected, TypeOK
  <2>2. NoToken \in Values \ {HostAnchor}
    BY TokensAssumption DEF Values, Tokens
  <2> QED
    BY <1>1, <1>3, <1>16, <1>18, <2>1, <2>2, AnchorWrites DEF ClientRejected
<1> QED
  BY <1>5, <1>6, <1>7, <1>8, <1>9, <1>10, <1>11, <1>12, <1>13, <1>14, <1>15, <1>17, <1>18 DEF Next

\* Only the credential is taken for the host.
LEMMA HostIsAnchor ==
  ASSUME NEW p, NEW t, NEW cred, Judge(p, t, cred) = "host"
  PROVE  t = cred
<1>1. CallerName(ModuleHits(p, t)) \in Peers \cup {"unknown"}
  BY CallerNameChosen DEF ModuleHits
<1>2. CallerName(ModuleHits(p, t)) # "host"
  BY <1>1, ProvidersAssumption DEF Peers, Kinds, BootstrapKeys
<1> QED
  BY <1>2 DEF Judge, Rejected

\* Every step keeps AnchorInv.
LEMMA AnchorStep == GrantInv /\ AnchorInv /\ [ProxyNext]_allVars => AnchorInv'
<1> SUFFICES ASSUME GrantInv, AnchorInv, [ProxyNext]_allVars PROVE AnchorInv'
  OBVIOUS
<1>1. ProxyTypeOK /\ TypeOK /\ GatesSet
  BY DEF GrantInv, ProxyTypeOK
<1>2. tokens \in StoreMaps
  BY <1>1 DEF TypeOK, StoreMaps, Values
<1>3. CASE Next /\ UNCHANGED proxyVars
  <2>1. Keeps(tokens, tokens') /\ Adopting'
    BY <1>1, <1>3, StoreAnchorStep DEF AnchorInv
  <2> QED
    BY <1>3, <2>1 DEF AnchorInv, AnchorIsNotPrivate, AnchorInPlace, InPlace, Keeps, proxyVars
<1>4. ASSUME NEW p \in Providers, NewProxy(p) PROVE AnchorInv'
  <2>1. p \in Names
    BY ProvidersAssumption
  <2>2. tokens' = tokens \/ tokens' = ClearAllTokens(tokens, p)
    BY <1>4 DEF NewProxy, WithStore, ClearAllTokens
  <2>3. Keeps(tokens, tokens')
    BY <1>2, <2>1, <2>2, AnchorWrites DEF AnchorInv, Keeps
  <2>4. gate[p].op # "call" /\ verdict[p].who = "none"
    BY <1>1, <1>4 DEF NewProxy, GatesSet
  <2>5. /\ \A q \in Providers \ {p} : proxyStore'[q] = proxyStore[q]
        /\ UNCHANGED <<adopt, gate, verdict>>
    BY <1>1, <1>4 DEF NewProxy, ProxyTypeOK
  <2> QED
    BY <2>3, <2>4, <2>5 DEF AnchorInv, Adopting, AnchorIsNotPrivate, AnchorInPlace, InPlace, Keeps
<1>5. ASSUME NEW p \in Providers, NEW auth, NEW k, NEW t, InformModuleToken(p, auth, k, t)
      PROVE  AnchorInv'
  <2>1. /\ gate'[p].op = "inform" /\ \A q \in Providers \ {p} : gate'[q] = gate[q]
        /\ UNCHANGED <<tokens, adopt, proxyStore, verdict>>
    BY <1>1, <1>5 DEF InformModuleToken, vars, ProxyTypeOK
  <2> QED
    BY <2>1 DEF AnchorInv, BootAnchors, Adopting, AnchorIsNotPrivate, AnchorInPlace, InPlace
<1>6. ASSUME NEW p \in Providers, NEW stored \in BOOLEAN, NEW ok \in BOOLEAN,
             ProviderInformed(p, stored, ok)
      PROVE  AnchorInv'
  <2>1. /\ proxyStore[p] \in Stores /\ gate[p].token \in Values
        /\ Bare(gate[p].caller) \in StoreKeys
    BY <1>1, <1>6, KeySpellings
       DEF ProviderInformed, ProxyTypeOK, GatesSet, Values, Tokens
  <2>2. Keeps(tokens, tokens')
    BY <1>2, <1>6, <2>1, AnchorWrites DEF ProviderInformed, AnchorInv, Keeps
  <2>3. /\ gate'[p].op = "idle" /\ \A q \in Providers \ {p} : gate'[q] = gate[q]
        /\ UNCHANGED <<adopt, proxyStore, verdict>>
    BY <1>1, <1>6 DEF ProviderInformed, ProxyTypeOK, Idle
  <2> QED
    BY <2>2, <2>3 DEF AnchorInv, Adopting, AnchorIsNotPrivate, AnchorInPlace, InPlace, Keeps
<1>7. ASSUME NEW p \in Providers, NEW auth, Authorize(p, auth) PROVE AnchorInv'
  <2>1. /\ gate'[p].cred = Credential(proxyStore[p])
        /\ \A q \in Providers \ {p} : gate'[q] = gate[q]
        /\ UNCHANGED <<tokens, adopt, proxyStore, verdict>>
    BY <1>1, <1>7 DEF Authorize, vars, ProxyTypeOK
  <2>2. InPlace(tokens) /\ proxyStore[p] # Shared => Credential(proxyStore[p]) # HostAnchor
    <3>1. proxyStore[p] \in Stores
      BY <1>1, <1>7 DEF Authorize, Reached, ProxyTypeOK
    <3> QED
      BY <3>1 DEF Stores, AnchorInv, BootAnchors, Credential, CredentialIn, BootstrapKeys
  <2> QED
    BY <2>1, <2>2 DEF AnchorInv, BootAnchors, Adopting, AnchorIsNotPrivate, AnchorInPlace, InPlace
<1>8. ASSUME NEW p \in Providers, Dispatch(p) PROVE AnchorInv'
  <2> DEFINE g == gate[p]
             who == Judge(p, g.token, g.cred)
  <2>1. /\ verdict'[p] = [token |-> g.token, who |-> who, cred |-> g.cred]
        /\ g.op = "call" /\ gate'[p].op = "idle"
        /\ \A q \in Providers \ {p} : gate'[q] = gate[q] /\ verdict'[q] = verdict[q]
        /\ UNCHANGED <<tokens, adopt, proxyStore>>
    BY <1>1, <1>8 DEF Dispatch, vars, ProxyTypeOK, Idle
  <2>2. who = "host" => g.token = g.cred
    BY HostIsAnchor
  <2> HIDE DEF who
  <2> QED
    BY <2>1, <2>2 DEF AnchorInv, BootAnchors, Adopting, AnchorIsNotPrivate, AnchorInPlace, InPlace
<1>9. ASSUME NEW p \in Providers, Return(p) PROVE AnchorInv'
  BY <1>9 DEF Return, vars, AnchorInv, BootAnchors, Adopting, AnchorIsNotPrivate, AnchorInPlace, InPlace
<1>10. CASE UNCHANGED allVars
  BY <1>10 DEF allVars, vars, proxyVars, AnchorInv, BootAnchors, Adopting, AnchorIsNotPrivate,
     AnchorInPlace, InPlace
<1> QED
  BY <1>3, <1>4, <1>5, <1>6, <1>7, <1>8, <1>9, <1>10 DEF ProxyNext

\* The initial states hold the anchor in the shared store only.
LEMMA AnchorStart == ProxyInit => AnchorInv
<1> SUFFICES ASSUME ProxyInit PROVE AnchorInv
  OBVIOUS
<1>1. BootAnchors(tokens)
  <2>1. /\ Bare("core") \in StoreKeys /\ Bare("core") \in {Bare(n) : n \in BootstrapKeys}
        /\ \A b \in BootstrapKeys : Bare(b) \in StoreKeys
        /\ Shared \in Stores /\ \A i \in Names : i \in Stores /\ i # Shared
    BY KeySpellings, NamesAssumption DEF Peers, BootstrapKeys, Stores
  <2>2. NoToken # HostAnchor
    BY TokensAssumption DEF Tokens
  <2> QED
    BY <2>1, <2>2 DEF ProxyInit, Init, BootAnchors
<1>2. \A a \in Adopters : adopt[a].next = "none"
  BY DEF ProxyInit, Init, NoAdoption
<1>3. \A p \in Providers : gate[p].op = "idle" /\ verdict[p].who = "none"
  BY DEF ProxyInit, Idle, NoVerdict
<1> QED
  BY <1>1, <1>2, <1>3 DEF AnchorInv, Adopting, AnchorIsNotPrivate

-----------------------------------------------------------------------------
\* A token is accepted only where it was granted, and a caller is named only as
\* it was granted (authorize, scanIssuedTokens): for any stores, doors and
\* interleavings, whatever the clients' targets are called.
THEOREM GrantedAlways == ProxySpec => [](AcceptedWasIssued /\ NamedCallerWasIssued)
<1>1. GrantInv => AcceptedWasIssued /\ NamedCallerWasIssued
  BY DEF GrantInv
<1> QED
  BY <1>1, GrantStart, GrantStep, PTL DEF ProxySpec

\* And an isolated provider does not take the host's anchor for its own credential
\* (adoptCredentialFor's refusal), as long as nobody has replaced the anchor in the
\* shared store.
THEOREM CallerWasIssuedAlways == ProxySpec => []CallerWasIssued
<1>1. GrantInv /\ AnchorInv => CallerWasIssued
  BY DEF GrantInv, AnchorInv, CallerWasIssued
<1> QED
  BY <1>1, GrantStart, GrantStep, AnchorStart, AnchorStep, PTL DEF ProxySpec

-----------------------------------------------------------------------------
(***************************************************************************)
(* TokenExchange, for any calls and any number of faults: a call is        *)
(* answered once, and first calls that share a handshake are not rejected. *)
(* ExchangeInv adds who holds a call that waits, whose each frame of the   *)
(* owner's thread is, and that there is one token while nothing disturbs   *)
(* the exchange.                                                           *)
(***************************************************************************)

Verdicts == {"none", "ok", "rejected", "error"}
RequestRecords == [id : Nat, by : Sync \cup {"async", "nobody"}, state : {"sent", "answered"}, token : Nat]
CallRecords == [at : {"idle", "queued", "sent", "done"}, token : Nat, retries : Nat, verdict : Verdicts]
ThreadFrames == [by : Sync \cup {"drain"}, at : {"drain", "acquire", "mint", "remint", "call", "recall"},
                 token : Nat, calls : Seq(Async), verdict : Verdicts]

\* What each variable of TokenExchange holds.
ExchangeTypeOK ==
  /\ cached \in Nat /\ queue \in Seq(Async) /\ waiting \in BOOLEAN /\ call \in [Async -> CallRecords]
  /\ thread \in Seq(ThreadFrames)
  /\ requests \subseteq RequestRecords /\ asked \in Nat /\ lost \in Nat
  /\ phase \in {"down", "init", "ready"} /\ accepts \in Nat /\ reloads \in Nat
  /\ answers \in [Calls -> Nat]

\* An asynchronous call is held by the queue or by one drain, once, and only
\* while it is queued.
HeldOnce ==
  /\ \A i \in DOMAIN queue : call[queue[i]].at = "queued"
  /\ \A i, j \in DOMAIN queue : queue[i] = queue[j] => i = j
  /\ \A k \in DOMAIN thread : \A i \in DOMAIN thread[k].calls :
       /\ call[thread[k].calls[i]].at = "queued"
       /\ \A j \in DOMAIN queue : queue[j] # thread[k].calls[i]
       /\ \A l \in DOMAIN thread : \A j \in DOMAIN thread[l].calls :
            thread[k].calls[i] = thread[l].calls[j] => k = l /\ i = j

\* An asynchronous call has been answered when it is over, and not before.
AsyncAnswers == \A a \in Async : answers[a] = IF call[a].at = "done" THEN 1 ELSE 0

\* A synchronous call has one frame until it is answered, and is answered once.
SyncAnswers ==
  /\ \A s \in Sync : answers[s] \in {0, 1}
  /\ \A k \in DOMAIN thread : thread[k].at # "drain" => thread[k].by \in Sync /\ answers[thread[k].by] = 0
  /\ \A k, l \in DOMAIN thread :
       thread[k].at # "drain" /\ thread[l].at # "drain" /\ thread[k].by = thread[l].by => k = l

\* Nothing has happened that could leave two tokens in circulation.
Undisturbed ==
  /\ reloads = 0 /\ lost = 0
  /\ \A k \in DOMAIN thread : thread[k].at = "drain"
  /\ \A s \in Sync : answers[s] = 0

\* Until then there is one handshake, with a queue behind it...
OneHandshake ==
  /\ \A r \in requests : \A q \in requests : r = q
  /\ \A r \in requests : /\ r.by = "async" /\ r.id # 0 /\ queue # <<>> /\ ~waiting /\ cached = 0
                         /\ phase = "ready"
                         /\ r.state = "answered" => r.token = accepts /\ accepts # 0
  /\ waiting => queue # <<>> /\ requests = {} /\ cached = 0
  /\ queue # <<>> => waiting \/ requests # {}

\* ... and then one token, which every call that is sent carries.
TokenShown ==
  /\ cached # 0 => accepts = cached
  /\ \A a \in Async : /\ call[a].verdict # "rejected"
                      /\ call[a].at = "sent" /\ call[a].verdict = "none" => call[a].token = cached /\ cached # 0
  /\ \A k \in DOMAIN thread :
       thread[k].verdict = "error" \/ (thread[k].token = cached /\ cached # 0)

OneToken == Undisturbed => OneHandshake /\ TokenShown

ExchangeInv == ExchangeTypeOK /\ HeldOnce /\ AsyncAnswers /\ SyncAnswers /\ OneToken

-----------------------------------------------------------------------------
(* The owner's thread: its stack of frames and its queue.                  *)

\* The frame on top of the stack.
LEMMA TopFrame ==
  ASSUME thread \in Seq(ThreadFrames), thread # <<>>
  PROVE  /\ Len(thread) \in Nat \ {0} /\ Len(thread) \in DOMAIN thread /\ Top = thread[Len(thread)]
         /\ Top \in ThreadFrames
<1>1. Len(thread) \in Nat \ {0} /\ DOMAIN thread = 1 .. Len(thread)
  BY EmptySeq, LenProperties
<1>2. Top = thread[Len(thread)]
  BY DEF Top
<1>3. Len(thread) \in 1 .. Len(thread)
  BY <1>1
<1> QED  BY <1>1, <1>2, <1>3, ElementOfSeq

LEMMA FrameFields ==
  ASSUME NEW f \in ThreadFrames
  PROVE  /\ f.by \in Sync \cup {"drain"} /\ f.token \in Nat /\ f.calls \in Seq(Async) /\ f.verdict \in Verdicts
         /\ f.at \in {"drain", "acquire", "mint", "remint", "call", "recall"}
BY DEF ThreadFrames

LEMMA FrameTyped ==
  ASSUME NEW s \in Sync, NEW at \in {"acquire", "mint", "remint", "call", "recall"}, NEW t \in Nat
  PROVE  /\ Frame(s, at, t) \in ThreadFrames /\ Frame(s, at, t).at = at /\ Frame(s, at, t).by = s
         /\ Frame(s, at, t).calls = <<>>
BY EmptySeq DEF Frame, ThreadFrames, Verdicts

LEMMA PopFrames ==
  ASSUME thread \in Seq(ThreadFrames), thread # <<>>, Pop
  PROVE  /\ thread' \in Seq(ThreadFrames)
         /\ \A k \in DOMAIN thread' : k \in DOMAIN thread /\ k # Len(thread) /\ thread'[k] = thread[k]
         /\ \A k \in DOMAIN thread : k # Len(thread) => k \in DOMAIN thread'
<1> PICK n \in Nat \ {0} : n = Len(thread)
  BY TopFrame
<1>1. DOMAIN thread = 1 .. n
  BY LenProperties
<1>2. \A i \in 1 .. n : thread[i] \in ThreadFrames
  BY ElementOfSeq
<1>3. /\ 1 \in Int /\ n - 1 \in Int /\ 1 .. n-1 \subseteq 1 .. n /\ n-1-1+1 = n-1
      /\ \A i \in 1 .. n-1 : 1+i-1 = i /\ i # n
      /\ \A i \in 1 .. n : i # n => i \in 1 .. n-1
  OBVIOUS
<1>4. \A i \in 1 .. n-1 : thread[i] \in ThreadFrames
  BY <1>2, <1>3
<1>5. thread' = SubSeq(thread, 1, n-1)
  BY DEF Pop
<1>6. /\ thread' \in Seq(ThreadFrames) /\ Len(thread') = IF 1 <= n-1 THEN n-1-1+1 ELSE 0
      /\ \A i \in 1 .. n-1-1+1 : thread'[i] = thread[1+i-1]
  BY <1>3, <1>4, <1>5, SubSeqProperties
<1>7. Len(thread') = n-1
  BY <1>6
<1>8. DOMAIN thread' = 1 .. n-1
  BY <1>6, <1>7, LenProperties
<1> QED  BY <1>1, <1>3, <1>6, <1>8

LEMMA PutFrame ==
  ASSUME thread \in Seq(ThreadFrames), NEW k \in DOMAIN thread, NEW f \in ThreadFrames,
         thread' = [thread EXCEPT ![k] = f]
  PROVE  /\ thread' \in Seq(ThreadFrames) /\ DOMAIN thread' = DOMAIN thread /\ thread'[k] = f
         /\ \A l \in DOMAIN thread : l # k => thread'[l] = thread[l]
<1>1. DOMAIN thread = 1 .. Len(thread)
  BY LenProperties
<1>2. k \in 1 .. Len(thread)
  BY <1>1
<1>3. /\ thread' \in Seq(ThreadFrames)
      /\ \A l \in 1 .. Len(thread) : thread'[l] = IF l = k THEN f ELSE thread[l]
  BY <1>2, ExceptSeq
<1>4. DOMAIN thread' = DOMAIN thread
  OBVIOUS
<1> QED  BY <1>1, <1>2, <1>3, <1>4

LEMMA PushFrame ==
  ASSUME thread \in Seq(ThreadFrames), NEW f \in ThreadFrames, thread' = Append(thread, f)
  PROVE  /\ thread' \in Seq(ThreadFrames) /\ Len(thread) + 1 \notin DOMAIN thread
         /\ DOMAIN thread' = DOMAIN thread \cup {Len(thread) + 1} /\ thread'[Len(thread) + 1] = f
         /\ \A k \in DOMAIN thread : thread'[k] = thread[k]
<1> PICK n \in Nat : n = Len(thread)
  BY LenProperties
<1>1. DOMAIN thread = 1 .. n
  BY LenProperties
<1>2. /\ thread' \in Seq(ThreadFrames) /\ Len(thread') = n + 1 /\ thread'[n + 1] = f
      /\ \A i \in 1 .. n : thread'[i] = thread[i]
  BY AppendProperties
<1>3. DOMAIN thread' = 1 .. n+1
  BY <1>2, LenProperties
<1>4. 1 .. n+1 = (1 .. n) \cup {n+1} /\ n+1 \notin 1 .. n
  OBVIOUS
<1> QED  BY <1>1, <1>2, <1>3, <1>4

\* The same for the queue.
LEMMA PushQueue ==
  ASSUME queue \in Seq(Async), NEW a \in Async, queue' = Append(queue, a)
  PROVE  /\ queue' \in Seq(Async) /\ queue' # <<>> /\ Len(queue) + 1 \notin DOMAIN queue
         /\ DOMAIN queue' = DOMAIN queue \cup {Len(queue) + 1} /\ queue'[Len(queue) + 1] = a
         /\ \A k \in DOMAIN queue : queue'[k] = queue[k]
<1> PICK n \in Nat : n = Len(queue)
  BY LenProperties
<1>1. DOMAIN queue = 1 .. n
  BY LenProperties
<1>2. /\ queue' \in Seq(Async) /\ Len(queue') = n + 1 /\ queue'[n + 1] = a /\ queue' # <<>>
      /\ \A i \in 1 .. n : queue'[i] = queue[i]
  BY AppendProperties
<1>3. DOMAIN queue' = 1 .. n+1
  BY <1>2, LenProperties
<1>4. 1 .. n+1 = (1 .. n) \cup {n+1} /\ n+1 \notin 1 .. n
  OBVIOUS
<1> QED  BY <1>1, <1>2, <1>3, <1>4

-----------------------------------------------------------------------------
(* Who holds a call.                                                       *)

\* No call is held at a new place, and none that is held leaves the queue.
LEMMA HeldKept ==
  ASSUME HeldOnce, queue' = queue,
         \A k \in DOMAIN thread' :
           \/ thread'[k].calls = <<>>
           \/ k \in DOMAIN thread /\ thread'[k].calls = thread[k].calls,
         ExchangeTypeOK,
         \A a \in Async : call[a].at = "queued" => call'[a].at = "queued"
  PROVE  HeldOnce'
<1>1. DOMAIN <<>> = {}
  OBVIOUS
<1>2. \A k \in DOMAIN thread' : \A i \in DOMAIN thread'[k].calls :
        k \in DOMAIN thread /\ i \in DOMAIN thread[k].calls /\ thread'[k].calls[i] = thread[k].calls[i]
  BY <1>1
<1>3. \A i \in DOMAIN queue : queue[i] \in Async
  BY ElementOfSeq, LenProperties DEF ExchangeTypeOK
<1>4. \A k \in DOMAIN thread : \A i \in DOMAIN thread[k].calls : thread[k].calls[i] \in Async
  BY ElementOfSeq, LenProperties, FrameFields DEF ExchangeTypeOK
<1>5. /\ \A i \in DOMAIN queue' : call'[queue'[i]].at = "queued"
      /\ \A i, j \in DOMAIN queue' : queue'[i] = queue'[j] => i = j
  BY <1>3 DEF HeldOnce
<1>6. ASSUME NEW k \in DOMAIN thread', NEW i \in DOMAIN thread'[k].calls
      PROVE  /\ call'[thread'[k].calls[i]].at = "queued"
             /\ \A j \in DOMAIN queue' : queue'[j] # thread'[k].calls[i]
  BY <1>2, <1>4, <1>6 DEF HeldOnce
<1>7. ASSUME NEW k \in DOMAIN thread', NEW i \in DOMAIN thread'[k].calls,
             NEW l \in DOMAIN thread', NEW j \in DOMAIN thread'[l].calls, thread'[k].calls[i] = thread'[l].calls[j]
      PROVE  k = l /\ i = j
  <2>1. /\ k \in DOMAIN thread /\ i \in DOMAIN thread[k].calls /\ thread'[k].calls[i] = thread[k].calls[i]
        /\ l \in DOMAIN thread /\ j \in DOMAIN thread[l].calls /\ thread'[l].calls[j] = thread[l].calls[j]
    BY <1>2, <1>7
  <2> QED  BY <2>1, <1>7 DEF HeldOnce
<1> QED  BY <1>5, <1>6, <1>7 DEF HeldOnce

\* A call that nobody holds joins the queue.
LEMMA HeldQueued ==
  ASSUME HeldOnce, ExchangeTypeOK, NEW a \in Async, call[a].at # "queued", queue' = Append(queue, a),
         UNCHANGED thread, call'[a].at = "queued", \A b \in Async \ {a} : call'[b] = call[b]
  PROVE  HeldOnce'
<1>1. \A i \in DOMAIN queue : queue[i] \in Async
  BY ElementOfSeq, LenProperties DEF ExchangeTypeOK
<1>2. \A k \in DOMAIN thread : \A i \in DOMAIN thread[k].calls : thread[k].calls[i] \in Async
  BY ElementOfSeq, LenProperties, FrameFields DEF ExchangeTypeOK
<1> PICK n : n = Len(queue) + 1
  OBVIOUS
<1>3. /\ DOMAIN queue' = DOMAIN queue \cup {n} /\ n \notin DOMAIN queue /\ queue'[n] = a
      /\ \A k \in DOMAIN queue : queue'[k] = queue[k]
  BY PushQueue DEF ExchangeTypeOK
<1>4. \A i \in DOMAIN queue : queue[i] # a
  BY DEF HeldOnce
<1>5. \A k \in DOMAIN thread : \A i \in DOMAIN thread[k].calls : thread[k].calls[i] # a
  BY DEF HeldOnce
<1>6. /\ \A i \in DOMAIN queue' : call'[queue'[i]].at = "queued"
      /\ \A i, j \in DOMAIN queue' : queue'[i] = queue'[j] => i = j
  BY <1>1, <1>3, <1>4 DEF HeldOnce
<1>7. ASSUME NEW k \in DOMAIN thread, NEW i \in DOMAIN thread[k].calls
      PROVE  /\ call'[thread[k].calls[i]].at = "queued"
             /\ \A j \in DOMAIN queue' : queue'[j] # thread[k].calls[i]
  BY <1>2, <1>3, <1>5, <1>7 DEF HeldOnce
<1> QED  BY <1>6, <1>7 DEF HeldOnce

\* A drain takes the whole queue.
LEMMA HeldDrain ==
  ASSUME HeldOnce, ExchangeTypeOK, NEW t \in Nat, NEW reachable \in BOOLEAN, Drain(t, reachable), UNCHANGED call
  PROVE  /\ HeldOnce' /\ thread' \in Seq(ThreadFrames) /\ queue' = <<>> /\ queue' \in Seq(Async)
         /\ \A k \in DOMAIN thread' :
              \/ k \in DOMAIN thread /\ thread'[k] = thread[k]
              \/ /\ thread'[k].at = "drain" /\ thread'[k].token = t
                 /\ thread'[k].verdict = IF reachable THEN "none" ELSE "error"
         /\ \A k \in DOMAIN thread : k \in DOMAIN thread' /\ thread'[k] = thread[k]
<1> PICK f : f = [by |-> "drain", at |-> "drain", token |-> t, calls |-> queue,
                  verdict |-> IF reachable THEN "none" ELSE "error"]
  OBVIOUS
<1>1. f \in ThreadFrames /\ f.at = "drain" /\ f.token = t /\ f.calls = queue
      /\ f.verdict = IF reachable THEN "none" ELSE "error"
  BY DEF ExchangeTypeOK, ThreadFrames, Verdicts
<1>2. thread' = Append(thread, f) /\ queue' = <<>>
  BY DEF Drain
<1> PICK n : n = Len(thread) + 1
  OBVIOUS
<1>3. /\ thread' \in Seq(ThreadFrames) /\ n \notin DOMAIN thread
      /\ DOMAIN thread' = DOMAIN thread \cup {n} /\ thread'[n] = f
      /\ \A k \in DOMAIN thread : thread'[k] = thread[k]
  BY <1>1, <1>2, PushFrame DEF ExchangeTypeOK
<1>4. DOMAIN queue' = {} /\ queue' \in Seq(Async)
  BY <1>2, EmptySeq
<1>5. HeldOnce'
  <2>1. ASSUME NEW k \in DOMAIN thread', NEW i \in DOMAIN thread'[k].calls
        PROVE  call'[thread'[k].calls[i]].at = "queued"
    BY <1>1, <1>3, <2>1 DEF HeldOnce
  <2>2. ASSUME NEW k \in DOMAIN thread', NEW i \in DOMAIN thread'[k].calls,
               NEW l \in DOMAIN thread', NEW j \in DOMAIN thread'[l].calls,
               thread'[k].calls[i] = thread'[l].calls[j]
        PROVE  k = l /\ i = j
    <3>1. CASE k = n /\ l = n
      BY <3>1, <2>2, <1>1, <1>3 DEF HeldOnce
    <3>2. CASE k = n /\ l \in DOMAIN thread
      BY <3>2, <2>2, <1>1, <1>3 DEF HeldOnce
    <3>3. CASE k \in DOMAIN thread /\ l = n
      BY <3>3, <2>2, <1>1, <1>3 DEF HeldOnce
    <3>4. CASE k \in DOMAIN thread /\ l \in DOMAIN thread
      BY <3>4, <2>2, <1>3 DEF HeldOnce
    <3> QED  BY <3>1, <3>2, <3>3, <3>4, <1>3
  <2> QED  BY <2>1, <2>2, <1>4 DEF HeldOnce
<1> QED  BY <1>1, <1>2, <1>3, <1>4, <1>5

\* The drain on top lets go of its first call.
LEMMA HeldDrainOne ==
  ASSUME HeldOnce, ExchangeTypeOK, thread # <<>>, Top.calls # <<>>, UNCHANGED queue,
         SetTop([Top EXCEPT !.calls = Tail(@)]),
         \A b \in Async \ {Head(Top.calls)} : call'[b] = call[b]
  PROVE  /\ HeldOnce' /\ thread' \in Seq(ThreadFrames) /\ DOMAIN thread' = DOMAIN thread
         /\ \A k \in DOMAIN thread : /\ thread'[k].at = thread[k].at /\ thread'[k].by = thread[k].by
                                     /\ thread'[k].token = thread[k].token /\ thread'[k].verdict = thread[k].verdict
         /\ Head(Top.calls) \in Async /\ call[Head(Top.calls)].at = "queued"
<1> PICK n : n = Len(thread)
  OBVIOUS
<1> PICK c : c = Top.calls
  OBVIOUS
<1> PICK f : f = [Top EXCEPT !.calls = Tail(@)]
  OBVIOUS
<1>1. n \in DOMAIN thread /\ Top = thread[n] /\ Top \in ThreadFrames
  BY TopFrame DEF ExchangeTypeOK
<1>2. c \in Seq(Async) /\ c # <<>>
  BY <1>1, FrameFields
<1>3. /\ Head(c) \in Async /\ Tail(c) \in Seq(Async) /\ Len(Tail(c)) = Len(c) - 1
      /\ \A i \in 1 .. Len(Tail(c)) : Tail(c)[i] = c[i+1]
  BY <1>2, HeadTailProperties
<1>4. /\ f \in ThreadFrames /\ f.at = Top.at /\ f.by = Top.by /\ f.token = Top.token /\ f.verdict = Top.verdict
      /\ f.calls = Tail(c)
  BY <1>1, <1>3 DEF ThreadFrames
<1>5. thread' = [thread EXCEPT ![n] = f]
  BY DEF SetTop
<1>6. /\ thread' \in Seq(ThreadFrames) /\ DOMAIN thread' = DOMAIN thread /\ thread'[n] = f
      /\ \A l \in DOMAIN thread : l # n => thread'[l] = thread[l]
  BY <1>1, <1>4, <1>5, PutFrame DEF ExchangeTypeOK
<1>7. Len(c) \in Nat \ {0} /\ DOMAIN c = 1 .. Len(c) /\ DOMAIN Tail(c) = 1 .. Len(Tail(c)) /\ Head(c) = c[1]
  BY <1>2, <1>3, EmptySeq, LenProperties
<1>8. 1 \in DOMAIN c /\ \A i \in DOMAIN Tail(c) : i + 1 \in DOMAIN c /\ i + 1 # 1 /\ i \in Int /\ Tail(c)[i] = c[i+1]
  BY <1>3, <1>7
<1>9. call[Head(c)].at = "queued"
  BY <1>1, <1>7, <1>8 DEF HeldOnce
<1>10. \A i \in DOMAIN queue : queue[i] \in Async
  BY ElementOfSeq, LenProperties DEF ExchangeTypeOK
<1>11. \A k \in DOMAIN thread : \A i \in DOMAIN thread[k].calls : thread[k].calls[i] \in Async
  BY ElementOfSeq, LenProperties, FrameFields DEF ExchangeTypeOK
<1>12. \A i \in DOMAIN queue : queue[i] # Head(c)
  BY <1>1, <1>7, <1>8 DEF HeldOnce
<1>13. ASSUME NEW k \in DOMAIN thread', NEW i \in DOMAIN thread'[k].calls
       PROVE  \E j \in DOMAIN thread[k].calls :
                /\ thread'[k].calls[i] = thread[k].calls[j] /\ thread[k].calls[j] # Head(c)
                /\ IF k = n THEN j = i + 1 /\ i \in Int ELSE j = i
  <2>1. CASE k = n
    <3>1. /\ i + 1 \in DOMAIN c /\ i + 1 # 1 /\ Tail(c)[i] = c[i+1] /\ i \in Int
      BY <1>8, <1>13, <2>1, <1>6, <1>4
    <3>2. c[i+1] # c[1]
      BY <3>1, <1>1, <1>8 DEF HeldOnce
    <3> QED  BY <3>1, <3>2, <2>1, <1>1, <1>4, <1>6, <1>7
  <2>2. CASE k # n
    <3>1. i \in DOMAIN thread[k].calls /\ thread'[k].calls[i] = thread[k].calls[i]
      BY <2>2, <1>6, <1>13
    <3>2. thread[k].calls[i] # c[1]
      BY <3>1, <2>2, <1>1, <1>6, <1>8 DEF HeldOnce
    <3> QED  BY <3>1, <3>2, <2>2, <1>7
  <2> QED  BY <2>1, <2>2
<1>14. ASSUME NEW k \in DOMAIN thread', NEW i \in DOMAIN thread'[k].calls
       PROVE  /\ call'[thread'[k].calls[i]].at = "queued"
              /\ \A j \in DOMAIN queue' : queue'[j] # thread'[k].calls[i]
  <2>1. k \in DOMAIN thread
    BY <1>6
  <2>2. PICK u \in DOMAIN thread[k].calls :
          thread'[k].calls[i] = thread[k].calls[u] /\ thread[k].calls[u] # Head(c)
    BY <1>13
  <2>3. thread[k].calls[u] \in Async /\ call[thread[k].calls[u]].at = "queued"
    BY <1>11, <2>1 DEF HeldOnce
  <2>4. \A j \in DOMAIN queue : queue[j] # thread[k].calls[u]
    BY <2>1 DEF HeldOnce
  <2> QED  BY <2>2, <2>3, <2>4
<1>15. ASSUME NEW k \in DOMAIN thread', NEW i \in DOMAIN thread'[k].calls,
              NEW l \in DOMAIN thread', NEW j \in DOMAIN thread'[l].calls, thread'[k].calls[i] = thread'[l].calls[j]
       PROVE  k = l /\ i = j
  <2>1. PICK u \in DOMAIN thread[k].calls : /\ thread'[k].calls[i] = thread[k].calls[u]
                                            /\ IF k = n THEN u = i + 1 /\ i \in Int ELSE u = i
    BY <1>13
  <2>2. PICK v \in DOMAIN thread[l].calls : /\ thread'[l].calls[j] = thread[l].calls[v]
                                            /\ IF l = n THEN v = j + 1 /\ j \in Int ELSE v = j
    BY <1>13
  <2>3. k = l /\ u = v
    <3>1. k \in DOMAIN thread /\ l \in DOMAIN thread /\ thread[k].calls[u] = thread[l].calls[v]
      BY <2>1, <2>2, <1>6, <1>15
    <3> QED  BY <3>1 DEF HeldOnce
  <2> QED  BY <2>1, <2>2, <2>3
<1>16. \A i \in DOMAIN queue' : call'[queue'[i]].at = "queued"
  BY <1>10, <1>12 DEF HeldOnce
<1>17. \A i, j \in DOMAIN queue' : queue'[i] = queue'[j] => i = j
  BY DEF HeldOnce
<1>18. HeldOnce'
  BY <1>14, <1>15, <1>16, <1>17 DEF HeldOnce
<1> QED  BY <1>1, <1>3, <1>4, <1>6, <1>9, <1>18

-----------------------------------------------------------------------------
(* Who has been answered.                                                  *)

\* No frame becomes that of another synchronous call, and none is answered.
LEMMA SyncKept ==
  ASSUME SyncAnswers,
         \A k \in DOMAIN thread' : \/ thread'[k].at = "drain"
                                   \/ k \in DOMAIN thread /\ thread[k].at # "drain" /\ thread'[k].by = thread[k].by,
         \A s \in Sync : answers'[s] = answers[s]
  PROVE  SyncAnswers'
<1>1. \A s \in Sync : answers'[s] \in {0, 1}
  BY DEF SyncAnswers
<1>2. \A k \in DOMAIN thread' : thread'[k].at # "drain" => thread'[k].by \in Sync /\ answers'[thread'[k].by] = 0
  BY DEF SyncAnswers
<1>3. \A k, l \in DOMAIN thread' :
       thread'[k].at # "drain" /\ thread'[l].at # "drain" /\ thread'[k].by = thread'[l].by => k = l
  BY DEF SyncAnswers
<1> QED  BY <1>1, <1>2, <1>3 DEF SyncAnswers

\* The synchronous call on top returns.
LEMMA SyncReturns ==
  ASSUME ExchangeTypeOK, SyncAnswers, AsyncAnswers, thread # <<>>, Top.at # "drain", Pop, Answer(Top.by),
         \A a \in Async : call'[a].at = call[a].at
  PROVE  SyncAnswers' /\ AsyncAnswers' /\ answers' \in [Calls -> Nat] /\ ~Undisturbed'
<1> PICK s : s = Top.by
  OBVIOUS
<1>1. Len(thread) \in DOMAIN thread /\ Top = thread[Len(thread)]
  BY TopFrame DEF ExchangeTypeOK
<1>2. s \in Sync /\ answers[s] = 0
  BY <1>1 DEF SyncAnswers
<1>3. s \in Calls /\ s \notin Async
  BY <1>2, CallsAssumption DEF Calls
<1>4. \A k \in DOMAIN thread' : k \in DOMAIN thread /\ k # Len(thread) /\ thread'[k] = thread[k]
  BY PopFrames DEF ExchangeTypeOK
<1>5. answers' = [answers EXCEPT ![s] = @ + 1] /\ answers \in [Calls -> Nat]
  BY DEF Answer, ExchangeTypeOK
<1>6. answers'[s] = 1 /\ answers' \in [Calls -> Nat] /\ \A c \in Calls \ {s} : answers'[c] = answers[c]
  BY <1>2, <1>3, <1>5
<1>7. \A k \in DOMAIN thread' : thread'[k].at # "drain" =>
         thread'[k].by \in Sync /\ thread'[k].by # s /\ answers[thread'[k].by] = 0
  BY <1>1, <1>4 DEF SyncAnswers
<1>8. \A c \in Sync : answers'[c] \in {0, 1}
  BY <1>6 DEF SyncAnswers, Calls
<1>9. \A k \in DOMAIN thread' : thread'[k].at # "drain" => thread'[k].by \in Sync /\ answers'[thread'[k].by] = 0
  BY <1>6, <1>7 DEF Calls
<1>10. \A k, l \in DOMAIN thread' :
       thread'[k].at # "drain" /\ thread'[l].at # "drain" /\ thread'[k].by = thread'[l].by => k = l
  BY <1>4 DEF SyncAnswers
<1>11. SyncAnswers'
  BY <1>8, <1>9, <1>10 DEF SyncAnswers
<1>12. AsyncAnswers'
  BY <1>3, <1>6 DEF AsyncAnswers, Calls
<1>13. ~Undisturbed'
  BY <1>2, <1>6 DEF Undisturbed
<1> QED  BY <1>6, <1>11, <1>12, <1>13

\* An asynchronous call is told.
LEMMA AsyncTold ==
  ASSUME ExchangeTypeOK, SyncAnswers, AsyncAnswers, NEW a \in Async, call[a].at # "done", Answer(a),
         call' = [call EXCEPT ![a] = Done]
  PROVE  /\ AsyncAnswers' /\ answers' \in [Calls -> Nat] /\ \A s \in Sync : answers'[s] = answers[s]
         /\ call' \in [Async -> CallRecords] /\ call'[a] = Done /\ \A b \in Async \ {a} : call'[b] = call[b]
<1>1. a \in Calls /\ a \notin Sync
  BY CallsAssumption DEF Calls
<1>2. answers' = [answers EXCEPT ![a] = @ + 1] /\ answers \in [Calls -> Nat] /\ answers[a] = 0
  BY DEF Answer, ExchangeTypeOK, AsyncAnswers
<1>3. answers'[a] = 1 /\ answers' \in [Calls -> Nat] /\ \A c \in Calls \ {a} : answers'[c] = answers[c]
  BY <1>1, <1>2
<1>4. /\ call' \in [Async -> CallRecords] /\ call'[a] = Done
      /\ \A b \in Async \ {a} : call'[b] = call[b]
  <2>1. Done \in CallRecords
    BY DEF Done, CallRecords, Verdicts
  <2> QED  BY <2>1 DEF ExchangeTypeOK
<1>5. call'[a].at = "done"
  BY <1>4 DEF Done
<1>6. AsyncAnswers'
  BY <1>3, <1>4, <1>5 DEF AsyncAnswers, Calls
<1> QED  BY <1>1, <1>3, <1>4, <1>6 DEF Calls

\* No asynchronous call ends, and none is told.
LEMMA AsyncKept ==
  ASSUME AsyncAnswers, \A a \in Async : answers'[a] = answers[a],
         \A a \in Async : call'[a].at = "done" <=> call[a].at = "done"
  PROVE  AsyncAnswers'
BY DEF AsyncAnswers

-----------------------------------------------------------------------------
LEMMA ExchangeInvInit == ExchangeInit => ExchangeInv
<1> SUFFICES ASSUME ExchangeInit PROVE ExchangeInv
  OBVIOUS
<1> USE DEF ExchangeInit
<1>1. DOMAIN thread = {} /\ DOMAIN queue = {}
  OBVIOUS
<1>2. thread \in Seq(ThreadFrames) /\ queue \in Seq(Async)
  BY EmptySeq
<1>3. IdleCall \in CallRecords /\ IdleCall.at = "idle" /\ IdleCall.verdict = "none"
  BY DEF IdleCall, CallRecords, Verdicts
<1>4. ExchangeTypeOK
  BY <1>2, <1>3 DEF ExchangeTypeOK, NotServing
<1>5. HeldOnce
  BY <1>1 DEF HeldOnce
<1>6. AsyncAnswers /\ SyncAnswers
  BY <1>1, <1>3 DEF AsyncAnswers, SyncAnswers, Calls
<1>7. OneToken
  BY <1>1, <1>3 DEF OneToken, OneHandshake, TokenShown
<1> QED  BY <1>4, <1>5, <1>6, <1>7 DEF ExchangeInv

\* A request to capability_module is a new record.
LEMMA AskTyped ==
  ASSUME ExchangeTypeOK, NEW by \in Sync \cup {"async"}, Ask(by)
  PROVE  /\ asked' \in Nat /\ requests' \subseteq RequestRecords
         /\ \E r \in RequestRecords : /\ r.id # 0 /\ r.by = by /\ r.state = "sent"
                                      /\ requests' = requests \cup {r}
<1> PICK r : r = [id |-> asked + 1, by |-> by, state |-> "sent", token |-> 0]
  OBVIOUS
<1>1. asked \in Nat /\ requests \subseteq RequestRecords
  BY DEF ExchangeTypeOK
<1>2. asked + 1 \in Nat /\ asked + 1 # 0
  BY <1>1
<1>3. r \in RequestRecords /\ r.id # 0 /\ r.by = by /\ r.state = "sent"
  BY <1>2 DEF RequestRecords
<1>4. asked' = asked + 1 /\ requests' = requests \cup {r}
  BY DEF Ask
<1> QED  BY <1>1, <1>2, <1>3, <1>4

LEMMA RequestFields ==
  ASSUME ExchangeTypeOK, NEW r \in requests
  PROVE  /\ r.id \in Nat /\ r.by \in Sync \cup {"async", "nobody"} /\ r.state \in {"sent", "answered"}
         /\ r.token \in Nat
BY DEF ExchangeTypeOK, RequestRecords

LEMMA CallFields ==
  ASSUME ExchangeTypeOK, NEW a \in Async
  PROVE  /\ call[a] \in CallRecords /\ call[a].at \in {"idle", "queued", "sent", "done"} /\ call[a].token \in Nat
         /\ call[a].retries \in Nat /\ call[a].verdict \in Verdicts
BY DEF ExchangeTypeOK, CallRecords

LEMMA SentTyped ==
  ASSUME NEW a, NEW t \in Nat, NEW retries \in Nat
  PROVE  /\ Sent(a, t, retries) \in CallRecords /\ Sent(a, t, retries).at = "sent" /\ Sent(a, t, retries).token = t
         /\ Sent(a, t, retries).verdict \in {"none", "error"}
BY DEF Sent, CallRecords, Verdicts

LEMMA QueuedTyped ==
  ASSUME NEW a, NEW retries \in Nat
  PROVE  /\ Queued(a, retries) \in CallRecords /\ Queued(a, retries).at = "queued"
         /\ Queued(a, retries).verdict = "none"
BY DEF Queued, CallRecords, Verdicts

\* invokeRemoteMethodAsyncImpl holds the call, or sends it.
LEMMA SubmitKeeps ==
  ASSUME ExchangeInv, NEW a \in Async, NEW t \in Nat, NEW retries \in Nat, Submit(a, t, retries),
         call[a].at \in {"idle", "sent"}, UNCHANGED <<thread, answers>>
  PROVE  /\ HeldOnce' /\ AsyncAnswers' /\ SyncAnswers'
         /\ call' \in [Async -> CallRecords] /\ queue' \in Seq(Async) /\ waiting' \in BOOLEAN
         /\ requests' \subseteq RequestRecords /\ asked' \in Nat
<1> USE DEF ExchangeInv
<1>1. call \in [Async -> CallRecords] /\ queue \in Seq(Async) /\ waiting \in BOOLEAN
      /\ requests \subseteq RequestRecords /\ asked \in Nat
  BY DEF ExchangeTypeOK
<1>2. SyncAnswers'
  BY SyncKept
<1>3. CASE t # 0
  <2>1. call' = [call EXCEPT ![a] = Sent(a, t, retries)] /\ UNCHANGED <<queue, waiting, requests, asked>>
    BY <1>3 DEF Submit
  <2>2. /\ call' \in [Async -> CallRecords] /\ call'[a].at = "sent" /\ \A b \in Async \ {a} : call'[b] = call[b]
    BY <1>1, <2>1, SentTyped
  <2>3. HeldOnce'
    BY <2>1, <2>2, HeldKept
  <2>4. AsyncAnswers'
    BY <2>2, AsyncKept
  <2> QED  BY <1>1, <1>2, <2>1, <2>2, <2>3, <2>4
<1>4. CASE t = 0
  <2>1. queue' = Append(queue, a) /\ call' = [call EXCEPT ![a] = Queued(a, retries)]
    BY <1>4 DEF Submit
  <2>2. /\ call' \in [Async -> CallRecords] /\ call'[a].at = "queued" /\ \A b \in Async \ {a} : call'[b] = call[b]
    BY <1>1, <2>1, QueuedTyped
  <2>3. HeldOnce'
    BY <2>1, <2>2, HeldQueued
  <2>4. AsyncAnswers'
    BY <2>2, AsyncKept
  <2>5. queue' \in Seq(Async)
    BY <2>1, <1>1, PushQueue
  <2>6. waiting' \in BOOLEAN /\ requests' \subseteq RequestRecords /\ asked' \in Nat
    BY <1>1, <1>4, AskTyped DEF Submit
  <2> QED  BY <1>2, <2>2, <2>3, <2>4, <2>5, <2>6
<1> QED  BY <1>3, <1>4

LEMMA InvokeAsyncKeeps ==
  ASSUME ExchangeInv, NEW a \in Async, InvokeAsync(a)
  PROVE  ExchangeInv'
<1>1. /\ Submit(a, cached, 1) /\ call[a] = IdleCall
      /\ UNCHANGED <<cached, thread, serving, noSurface, lost, phase, accepts, reloads, answers>>
  BY DEF InvokeAsync, target
<1>2. cached \in Nat /\ 1 \in Nat /\ call[a].at = "idle"
  BY <1>1 DEF ExchangeInv, ExchangeTypeOK, IdleCall
<1>3. /\ HeldOnce' /\ AsyncAnswers' /\ SyncAnswers'
      /\ call' \in [Async -> CallRecords] /\ queue' \in Seq(Async) /\ waiting' \in BOOLEAN
      /\ requests' \subseteq RequestRecords /\ asked' \in Nat
  BY <1>1, <1>2, SubmitKeeps
<1>4. ExchangeTypeOK'
  BY <1>1, <1>3 DEF ExchangeInv, ExchangeTypeOK
<1>5. ASSUME Undisturbed' PROVE OneHandshake' /\ TokenShown'
  <2>1. OneHandshake /\ TokenShown
    BY <1>1, <1>5 DEF ExchangeInv, OneToken, Undisturbed
  <2>2. CASE cached # 0
    <3>1. call' = [call EXCEPT ![a] = Sent(a, cached, 1)] /\ UNCHANGED <<queue, waiting, requests, asked>>
      BY <1>1, <2>2 DEF Submit
    <3>2. OneHandshake'
      BY <1>1, <2>1, <3>1 DEF OneHandshake
    <3>3. /\ call'[a].token = cached /\ call'[a].verdict # "rejected"
          /\ \A b \in Async \ {a} : call'[b] = call[b]
      BY <1>2, <3>1, SentTyped DEF ExchangeInv, ExchangeTypeOK
    <3>4. TokenShown'
      BY <1>1, <2>1, <2>2, <3>3 DEF TokenShown
    <3> QED  BY <3>2, <3>4
  <2>3. CASE cached = 0
    <3>1. queue' = Append(queue, a) /\ call' = [call EXCEPT ![a] = Queued(a, 1)]
      BY <1>1, <2>3 DEF Submit
    <3>2. /\ call'[a].at = "queued" /\ call'[a].verdict # "rejected"
          /\ \A b \in Async \ {a} : call'[b] = call[b]
      BY <1>2, <3>1, QueuedTyped DEF ExchangeInv, ExchangeTypeOK
    <3>3. TokenShown'
      BY <1>1, <2>1, <3>2 DEF TokenShown
    <3>4. queue' # <<>>
      BY <3>1, PushQueue DEF ExchangeInv, ExchangeTypeOK
    <3>5. CASE queue # <<>> /\ UNCHANGED <<waiting, requests, asked>>
      BY <1>1, <2>1, <3>3, <3>4, <3>5 DEF OneHandshake
    <3>6. CASE queue = <<>> /\ phase = "ready" /\ Ask("async") /\ UNCHANGED waiting
      <4>1. PICK r \in RequestRecords : /\ r.id # 0 /\ r.by = "async" /\ r.state = "sent"
                                        /\ requests' = requests \cup {r}
        BY <3>6, AskTyped DEF ExchangeInv
      <4>2. requests = {} /\ ~waiting
        BY <2>1, <3>6 DEF OneHandshake
      <4>3. OneHandshake'
        BY <1>1, <2>3, <3>4, <3>6, <4>1, <4>2 DEF OneHandshake
      <4> QED  BY <3>3, <4>3
    <3>7. CASE queue = <<>> /\ phase # "ready" /\ waiting' = TRUE /\ UNCHANGED <<requests, asked>>
      <4>1. requests = {}
        BY <2>1, <3>7 DEF OneHandshake
      <4> QED  BY <1>1, <2>3, <3>3, <3>4, <3>7, <4>1 DEF OneHandshake
    <3> QED  BY <1>1, <2>3, <3>3, <3>5, <3>6, <3>7 DEF Submit
  <2> QED  BY <2>2, <2>3
<1> QED  BY <1>3, <1>4, <1>5 DEF ExchangeInv, OneToken

\* The target and capability_module touch nothing of the client's: what is left
\* to show is what a request and a token of theirs may be.
LEMMA ClientUntouched ==
  ASSUME ExchangeInv, UNCHANGED <<client, answers>>
  PROVE  /\ HeldOnce' /\ AsyncAnswers' /\ SyncAnswers'
         /\ cached' \in Nat /\ queue' \in Seq(Async) /\ waiting' \in BOOLEAN /\ call' \in [Async -> CallRecords]
         /\ thread' \in Seq(ThreadFrames) /\ answers' \in [Calls -> Nat]
<1>1. UNCHANGED <<cached, queue, waiting, call, thread, answers>>
  BY DEF client
<1>2. HeldOnce'
  BY <1>1 DEF ExchangeInv, HeldOnce
<1>3. AsyncAnswers' /\ SyncAnswers'
  BY <1>1 DEF ExchangeInv, AsyncAnswers, SyncAnswers
<1> QED  BY <1>1, <1>2, <1>3 DEF ExchangeInv, ExchangeTypeOK

LEMMA TargetKeeps ==
  ASSUME ExchangeInv, TargetLoads \/ TargetSeeds \/ TargetReady \/ TargetUnloads
  PROVE  ExchangeInv'
<1>1. UNCHANGED <<client, answers, requests, asked, lost>>
  BY DEF TargetLoads, TargetSeeds, TargetReady, TargetUnloads, capability
<1>2. UNCHANGED <<cached, queue, waiting, call, thread, answers, requests, asked, lost>>
  BY <1>1 DEF client
<1>3. phase \in {"down", "init", "ready"} /\ accepts \in Nat /\ reloads \in Nat
  BY DEF ExchangeInv, ExchangeTypeOK
<1>4. /\ phase' \in {"down", "init", "ready"} /\ accepts' \in Nat /\ reloads' \in Nat
      /\ \/ reloads' # 0
         \/ UNCHANGED <<accepts, reloads>> /\ (phase = "ready" => phase' = "ready")
  BY <1>3 DEF TargetLoads, TargetSeeds, TargetReady, TargetUnloads
<1>5. ExchangeTypeOK'
  BY <1>2, <1>4 DEF ExchangeInv, ExchangeTypeOK
<1>6. ASSUME Undisturbed' PROVE OneHandshake' /\ TokenShown'
  <2>1. UNCHANGED <<accepts, reloads>> /\ (phase = "ready" => phase' = "ready")
    BY <1>4, <1>6 DEF Undisturbed
  <2>2. OneHandshake /\ TokenShown
    BY <2>1, <1>2, <1>6 DEF ExchangeInv, OneToken, Undisturbed
  <2> QED  BY <1>2, <2>1, <2>2 DEF OneHandshake, TokenShown
<1> QED  BY <1>1, <1>5, <1>6, ClientUntouched DEF ExchangeInv, OneToken

\* capability_module answers a request whose push arrived, or whose target was
\* not there to take it.
LEMMA ServedKeeps ==
  ASSUME ExchangeInv, NEW r \in requests, r.state = "sent", NEW t \in Nat, UNCHANGED <<client, answers>>,
         requests' = Answered(r, t), UNCHANGED <<asked, lost, phase, reloads>>,
         \/ t = r.id /\ accepts' = r.id
         \/ t = 0 /\ phase # "ready" /\ UNCHANGED accepts
  PROVE  ExchangeInv'
<1> PICK q : q = [r EXCEPT !.state = "answered", !.token = t]
  OBVIOUS
<1>1. requests' = (requests \ {r}) \cup {a \in {q} : a.by # "nobody"}
  BY DEF Answered
<1>2. r \in RequestRecords
  BY DEF ExchangeInv, ExchangeTypeOK
<1>3. q \in RequestRecords /\ q.by = r.by /\ q.id = r.id /\ q.state = "answered" /\ q.token = t
  BY <1>2 DEF RequestRecords
<1>4. UNCHANGED <<cached, queue, waiting, call, thread, answers>>
  BY DEF client
<1>5. ExchangeTypeOK'
  <2>1. accepts' \in Nat /\ requests' \subseteq RequestRecords
    BY <1>1, <1>3, RequestFields DEF ExchangeInv, ExchangeTypeOK
  <2> QED  BY <1>4, <2>1 DEF ExchangeInv, ExchangeTypeOK
<1>6. ASSUME Undisturbed' PROVE OneHandshake' /\ TokenShown'
  <2>1. OneHandshake /\ TokenShown
    BY <1>4, <1>6 DEF ExchangeInv, OneToken, Undisturbed
  <2>2. requests = {r} /\ r.by = "async" /\ r.id # 0 /\ phase = "ready" /\ queue # <<>> /\ ~waiting /\ cached = 0
    BY <2>1 DEF OneHandshake
  <2>3. requests' = {q} /\ accepts' = t /\ t # 0
    BY <1>1, <1>3, <2>2
  <2>4. OneHandshake'
    BY <1>3, <1>4, <2>2, <2>3 DEF OneHandshake
  <2>5. TokenShown'
    BY <1>4, <2>1, <2>2 DEF TokenShown
  <2> QED  BY <2>4, <2>5
<1> QED  BY <1>5, <1>6, ClientUntouched DEF ExchangeInv, OneToken

LEMMA CapabilityKeeps ==
  ASSUME ExchangeInv, CapabilityStep
  PROVE  ExchangeInv'
<1>1. PICK r \in requests : Probe(r) \/ Business(r)
  BY DEF CapabilityStep
<1>2. r.id \in Nat /\ 0 \in Nat
  BY RequestFields DEF ExchangeInv
<1>3. UNCHANGED <<client, asked, lost, phase, reloads, answers>> /\ r.state = "sent"
  BY <1>1 DEF Probe, Business
<1>4. CASE requests' = Answered(r, r.id) /\ accepts' = r.id
  BY <1>2, <1>3, <1>4, ServedKeeps
<1>5. CASE requests' = Answered(r, 0) /\ phase # "ready" /\ UNCHANGED accepts
  BY <1>2, <1>3, <1>5, ServedKeeps
<1>6. CASE UNCHANGED <<requests, accepts>>
  <2>1. UNCHANGED <<cached, queue, waiting, call, thread, answers>>
    BY <1>3 DEF client
  <2>2. ExchangeTypeOK'
    BY <1>3, <1>6, <2>1 DEF ExchangeInv, ExchangeTypeOK
  <2>3. OneToken'
    BY <1>3, <1>6, <2>1 DEF ExchangeInv, OneToken, Undisturbed, OneHandshake, TokenShown
  <2> QED  BY <1>3, <2>2, <2>3, ClientUntouched DEF ExchangeInv
<1>7. \/ requests' = Answered(r, r.id) /\ accepts' = r.id
      \/ requests' = Answered(r, 0) /\ phase # "ready" /\ UNCHANGED accepts
      \/ UNCHANGED <<requests, accepts>>
  BY <1>1 DEF Probe, Business
<1> QED  BY <1>4, <1>5, <1>6, <1>7

LEMMA LoseKeeps ==
  ASSUME ExchangeInv, NEW r \in requests, Lose(r)
  PROVE  ExchangeInv'
<1>1. /\ UNCHANGED <<client, asked, answers, phase, accepts, reloads>> /\ lost' = lost + 1 /\ lost \in Nat
      /\ requests' = (requests \ {r}) \cup {[r EXCEPT !.by = "nobody"], [r EXCEPT !.state = "answered"]}
  BY DEF Lose, target, ExchangeInv, ExchangeTypeOK
<1>2. r \in RequestRecords
  BY DEF ExchangeInv, ExchangeTypeOK
<1>3. requests' \subseteq RequestRecords
  BY <1>1, <1>2 DEF RequestRecords, ExchangeInv, ExchangeTypeOK
<1>4. ExchangeTypeOK'
  BY <1>1, <1>3, ClientUntouched DEF ExchangeInv, ExchangeTypeOK
<1>5. ~Undisturbed'
  BY <1>1 DEF Undisturbed
<1> QED  BY <1>1, <1>4, <1>5, ClientUntouched DEF ExchangeInv, OneToken

-----------------------------------------------------------------------------
(* The client's events.                                                    *)

LEMMA ReadinessFiresKeeps ==
  ASSUME ExchangeInv, ReadinessFires
  PROVE  ExchangeInv'
<1>1. /\ waiting /\ phase = "ready" /\ ~waiting' /\ waiting' \in BOOLEAN /\ Ask("async")
      /\ UNCHANGED <<cached, queue, call, thread, lost, phase, accepts, reloads, answers>>
  BY DEF ReadinessFires, target
<1>2. PICK r \in RequestRecords : /\ r.id # 0 /\ r.by = "async" /\ r.state = "sent"
                                  /\ requests' = requests \cup {r}
  BY <1>1, AskTyped DEF ExchangeInv
<1>3. asked' \in Nat /\ requests' \subseteq RequestRecords
  BY <1>1, AskTyped DEF ExchangeInv
<1>4. ExchangeTypeOK'
  BY <1>1, <1>3 DEF ExchangeInv, ExchangeTypeOK
<1>5. HeldOnce'
  BY <1>1 DEF ExchangeInv, HeldOnce
<1>6. AsyncAnswers' /\ SyncAnswers'
  BY <1>1 DEF ExchangeInv, AsyncAnswers, SyncAnswers
<1>7. ASSUME Undisturbed' PROVE OneHandshake' /\ TokenShown'
  <2>1. OneHandshake /\ TokenShown
    BY <1>1, <1>7 DEF ExchangeInv, OneToken, Undisturbed
  <2>2. OneHandshake'
    BY <1>1, <1>2, <2>1 DEF OneHandshake
  <2>3. TokenShown'
    BY <1>1, <2>1 DEF TokenShown
  <2> QED  BY <2>2, <2>3
<1> QED  BY <1>4, <1>5, <1>6, <1>7 DEF ExchangeInv, OneToken

LEMMA ReadinessExpiresKeeps ==
  ASSUME ExchangeInv, ReadinessExpires
  PROVE  ExchangeInv'
<1>1. /\ waiting /\ ~waiting' /\ waiting' \in BOOLEAN /\ Drain(0, FALSE) /\ 0 \in Nat /\ FALSE \in BOOLEAN
      /\ UNCHANGED <<cached, call, requests, asked, lost, phase, accepts, reloads, answers>>
  BY DEF ReadinessExpires, target, capability
<1>2. /\ HeldOnce' /\ thread' \in Seq(ThreadFrames) /\ queue' = <<>> /\ queue' \in Seq(Async)
      /\ \A k \in DOMAIN thread' :
           \/ k \in DOMAIN thread /\ thread'[k] = thread[k]
           \/ thread'[k].at = "drain" /\ thread'[k].verdict = "error"
      /\ \A k \in DOMAIN thread : k \in DOMAIN thread' /\ thread'[k] = thread[k]
  BY <1>1, HeldDrain DEF ExchangeInv
<1>3. ExchangeTypeOK'
  BY <1>1, <1>2 DEF ExchangeInv, ExchangeTypeOK
<1>4. AsyncAnswers'
  BY <1>1 DEF ExchangeInv, AsyncAnswers
<1>5. SyncAnswers'
  BY <1>1, <1>2, SyncKept DEF ExchangeInv
<1>6. ASSUME Undisturbed' PROVE OneHandshake' /\ TokenShown'
  <2>1. Undisturbed
    BY <1>1, <1>2, <1>6 DEF Undisturbed
  <2>2. OneHandshake /\ TokenShown
    BY <2>1 DEF ExchangeInv, OneToken
  <2>3. OneHandshake'
    BY <1>1, <1>2, <2>2 DEF OneHandshake
  <2>4. TokenShown'
    BY <1>1, <1>2, <2>2 DEF TokenShown
  <2> QED  BY <2>3, <2>4
<1> QED  BY <1>2, <1>3, <1>4, <1>5, <1>6 DEF ExchangeInv, OneToken

LEMMA HandshakeAnsweredKeeps ==
  ASSUME ExchangeInv, NEW r \in requests, HandshakeAnswered(r)
  PROVE  ExchangeInv'
<1>1. /\ r.by = "async" /\ r.state = "answered" /\ requests' = requests \ {r} /\ Drain(r.token, TRUE)
      /\ TRUE \in BOOLEAN /\ cached' = IF r.token # 0 THEN r.token ELSE cached
      /\ UNCHANGED <<waiting, call, asked, lost, phase, accepts, reloads, answers>>
  BY DEF HandshakeAnswered, target, Replies
<1>2. r.token \in Nat
  BY RequestFields DEF ExchangeInv
<1>3. /\ HeldOnce' /\ thread' \in Seq(ThreadFrames) /\ queue' = <<>> /\ queue' \in Seq(Async)
      /\ \A k \in DOMAIN thread' :
           \/ k \in DOMAIN thread /\ thread'[k] = thread[k]
           \/ thread'[k].at = "drain" /\ thread'[k].token = r.token
      /\ \A k \in DOMAIN thread : k \in DOMAIN thread' /\ thread'[k] = thread[k]
  BY <1>1, <1>2, HeldDrain DEF ExchangeInv
<1>4. ExchangeTypeOK'
  BY <1>1, <1>2, <1>3 DEF ExchangeInv, ExchangeTypeOK
<1>5. AsyncAnswers'
  BY <1>1 DEF ExchangeInv, AsyncAnswers
<1>6. SyncAnswers'
  BY <1>1, <1>3, SyncKept DEF ExchangeInv
<1>7. ASSUME Undisturbed' PROVE OneHandshake' /\ TokenShown'
  <2>1. Undisturbed
    BY <1>1, <1>3, <1>7 DEF Undisturbed
  <2>2. OneHandshake /\ TokenShown
    BY <2>1 DEF ExchangeInv, OneToken
  <2>3. requests = {r} /\ r.token = accepts /\ accepts # 0 /\ cached = 0 /\ ~waiting
    BY <1>1, <2>2 DEF OneHandshake
  <2>4. requests' = {} /\ cached' = accepts
    BY <1>1, <2>3
  <2>5. OneHandshake'
    BY <1>1, <1>3, <2>3, <2>4 DEF OneHandshake
  <2>6. TokenShown'
    BY <1>1, <1>3, <2>2, <2>3, <2>4 DEF TokenShown
  <2> QED  BY <2>5, <2>6
<1> QED  BY <1>3, <1>4, <1>5, <1>6, <1>7 DEF ExchangeInv, OneToken

\* The target judges a call that was sent, or the transport fails it.
LEMMA VerdictKeeps ==
  ASSUME ExchangeInv, NEW a \in Async, JudgeAsync(a) \/ FailAsync(a)
  PROVE  ExchangeInv'
<1>1. /\ call[a].at = "sent" /\ call[a].verdict = "none"
      /\ UNCHANGED <<cached, queue, waiting, thread, requests, asked, lost, phase, accepts, reloads, answers>>
  BY DEF JudgeAsync, FailAsync, target, capability
<1>2. PICK v \in Verdicts : /\ call' = [call EXCEPT ![a].verdict = v]
                            /\ v = "error" \/ v = Verdict(call[a].token)
  BY DEF JudgeAsync, FailAsync, Verdict, Verdicts
<1>3. call[a] \in CallRecords /\ call \in [Async -> CallRecords]
  BY CallFields DEF ExchangeInv, ExchangeTypeOK
<1>4. /\ call' \in [Async -> CallRecords] /\ call'[a].at = "sent" /\ call'[a].verdict = v
      /\ \A b \in Async \ {a} : call'[b] = call[b]
  BY <1>1, <1>2, <1>3 DEF CallRecords
<1>5. ExchangeTypeOK'
  BY <1>1, <1>4 DEF ExchangeInv, ExchangeTypeOK
<1>6. HeldOnce'
  BY <1>1, <1>4, HeldKept DEF ExchangeInv
<1>7. AsyncAnswers'
  BY <1>1, <1>4, AsyncKept DEF ExchangeInv
<1>8. SyncAnswers'
  BY <1>1 DEF ExchangeInv, SyncAnswers
<1>9. ASSUME Undisturbed' PROVE OneHandshake' /\ TokenShown'
  <2>1. OneHandshake /\ TokenShown
    BY <1>1, <1>9 DEF ExchangeInv, OneToken, Undisturbed
  <2>2. v # "none" /\ v # "rejected"
    BY <1>1, <1>2, <2>1 DEF TokenShown, Verdict
  <2>3. OneHandshake'
    BY <1>1, <2>1 DEF OneHandshake
  <2>4. TokenShown'
    BY <1>1, <1>4, <2>1, <2>2 DEF TokenShown
  <2> QED  BY <2>3, <2>4
<1> QED  BY <1>5, <1>6, <1>7, <1>8, <1>9 DEF ExchangeInv, OneToken

LEMMA ResultKeeps ==
  ASSUME ExchangeInv, NEW a \in Async, Result(a)
  PROVE  ExchangeInv'
<1>1. /\ call[a].at = "sent" /\ call[a].verdict # "none"
      /\ UNCHANGED <<thread, lost, phase, accepts, reloads>>
  BY DEF Result, target
<1>2. CASE call[a].verdict = "rejected" /\ call[a].retries > 0
  <2>1. cached' = 0 /\ Submit(a, 0, call[a].retries - 1) /\ UNCHANGED answers
    BY <1>2 DEF Result
  <2>2. call[a].retries - 1 \in Nat /\ 0 \in Nat
    BY <1>2, CallFields DEF ExchangeInv
  <2>3. /\ HeldOnce' /\ AsyncAnswers' /\ SyncAnswers'
        /\ call' \in [Async -> CallRecords] /\ queue' \in Seq(Async) /\ waiting' \in BOOLEAN
        /\ requests' \subseteq RequestRecords /\ asked' \in Nat
    BY <1>1, <2>1, <2>2, SubmitKeeps
  <2>4. ExchangeTypeOK'
    BY <1>1, <2>1, <2>3 DEF ExchangeInv, ExchangeTypeOK
  <2>5. ~Undisturbed'
    <3> SUFFICES ASSUME Undisturbed' PROVE FALSE
      OBVIOUS
    <3>1. TokenShown
      BY <1>1, <2>1 DEF ExchangeInv, OneToken, Undisturbed
    <3> QED  BY <3>1, <1>2 DEF TokenShown
  <2> QED  BY <2>3, <2>4, <2>5 DEF ExchangeInv, OneToken
<1>3. CASE ~(call[a].verdict = "rejected" /\ call[a].retries > 0)
  <2>1. call' = [call EXCEPT ![a] = Done] /\ Answer(a) /\ UNCHANGED <<cached, queue, waiting, requests, asked>>
    BY <1>3 DEF Result
  <2>2. /\ AsyncAnswers' /\ answers' \in [Calls -> Nat] /\ \A s \in Sync : answers'[s] = answers[s]
        /\ call' \in [Async -> CallRecords] /\ call'[a] = Done /\ \A b \in Async \ {a} : call'[b] = call[b]
    BY <1>1, <2>1, AsyncTold DEF ExchangeInv
  <2>3. HeldOnce'
    BY <1>1, <2>1, <2>2, HeldKept DEF ExchangeInv
  <2>4. SyncAnswers'
    BY <1>1, <2>2, SyncKept DEF ExchangeInv
  <2>5. ExchangeTypeOK'
    BY <1>1, <2>1, <2>2 DEF ExchangeInv, ExchangeTypeOK
  <2>6. ASSUME Undisturbed' PROVE OneHandshake' /\ TokenShown'
    <3>1. OneHandshake /\ TokenShown
      BY <1>1, <2>2, <2>6 DEF ExchangeInv, OneToken, Undisturbed
    <3>2. OneHandshake'
      BY <1>1, <2>1, <3>1 DEF OneHandshake
    <3>3. TokenShown'
      BY <1>1, <2>1, <2>2, <3>1 DEF TokenShown, Done
    <3> QED  BY <3>2, <3>3
  <2> QED  BY <2>2, <2>3, <2>4, <2>5, <2>6 DEF ExchangeInv, OneToken
<1> QED  BY <1>2, <1>3

-----------------------------------------------------------------------------
(* The frames of the owner's thread.                                       *)

LEMMA DrainOneKeeps ==
  ASSUME ExchangeInv, DrainOne
  PROVE  ExchangeInv'
<1> PICK a : a = Head(Top.calls)
  OBVIOUS
<1>1. /\ thread # <<>> /\ Top.at = "drain" /\ Top.calls # <<>> /\ SetTop([Top EXCEPT !.calls = Tail(@)])
      /\ UNCHANGED <<cached, queue, waiting, requests, asked, lost, phase, accepts, reloads>>
  BY DEF DrainOne, target, capability
<1>2. \/ Top.verdict = "error" /\ call' = [call EXCEPT ![a] = Done] /\ Answer(a)
      \/ /\ Top.verdict # "error" /\ UNCHANGED answers
         /\ call' = [call EXCEPT ![a] = Sent(a, Top.token, @.retries)]
  BY DEF DrainOne
<1>3. call \in [Async -> CallRecords]
  BY DEF ExchangeInv, ExchangeTypeOK
<1>4. \A b \in Async \ {a} : call'[b] = call[b]
  BY <1>2, <1>3
<1>5. /\ HeldOnce' /\ thread' \in Seq(ThreadFrames) /\ DOMAIN thread' = DOMAIN thread
      /\ \A k \in DOMAIN thread : /\ thread'[k].at = thread[k].at /\ thread'[k].by = thread[k].by
                                  /\ thread'[k].token = thread[k].token /\ thread'[k].verdict = thread[k].verdict
      /\ a \in Async /\ call[a].at = "queued"
  BY <1>1, <1>4, HeldDrainOne DEF ExchangeInv
<1>6. Len(thread) \in DOMAIN thread /\ Top = thread[Len(thread)] /\ Top \in ThreadFrames /\ Top.token \in Nat
  BY <1>1, TopFrame, FrameFields DEF ExchangeInv, ExchangeTypeOK
<1>7. CASE Top.verdict = "error"
  <2>1. /\ AsyncAnswers' /\ answers' \in [Calls -> Nat] /\ \A s \in Sync : answers'[s] = answers[s]
        /\ call' \in [Async -> CallRecords] /\ call'[a] = Done
    BY <1>2, <1>5, <1>7, AsyncTold DEF ExchangeInv
  <2>2. SyncAnswers'
    BY <1>5, <2>1, SyncKept DEF ExchangeInv
  <2>3. ExchangeTypeOK'
    BY <1>1, <1>5, <2>1 DEF ExchangeInv, ExchangeTypeOK
  <2>4. ASSUME Undisturbed' PROVE OneHandshake' /\ TokenShown'
    <3>1. OneHandshake /\ TokenShown
      BY <1>1, <1>5, <2>1, <2>4 DEF ExchangeInv, OneToken, Undisturbed
    <3>2. OneHandshake'
      BY <1>1, <3>1 DEF OneHandshake
    <3>3. call'[a].verdict = "none" /\ call'[a].at = "done"
      BY <2>1 DEF Done
    <3>4. \A k \in DOMAIN thread' : thread'[k].verdict = "error" \/ (thread'[k].token = cached' /\ cached' # 0)
      BY <1>1, <1>5, <3>1 DEF TokenShown
    <3>5. \A b \in Async :
            /\ call'[b].verdict # "rejected"
            /\ call'[b].at = "sent" /\ call'[b].verdict = "none" => call'[b].token = cached' /\ cached' # 0
      BY <1>1, <1>4, <3>1, <3>3 DEF TokenShown
    <3>6. TokenShown'
      BY <1>1, <3>1, <3>4, <3>5 DEF TokenShown
    <3> QED  BY <3>2, <3>6
  <2> QED  BY <1>5, <2>1, <2>2, <2>3, <2>4 DEF ExchangeInv, OneToken
<1>8. CASE Top.verdict # "error"
  <2>1. UNCHANGED answers /\ call' = [call EXCEPT ![a] = Sent(a, Top.token, call[a].retries)]
    BY <1>2, <1>8
  <2>2. /\ call' \in [Async -> CallRecords] /\ call'[a].at = "sent" /\ call'[a].token = Top.token
        /\ call'[a].verdict # "rejected"
    <3> PICK c : c = Sent(a, Top.token, call[a].retries)
      OBVIOUS
    <3>1. call[a].retries \in Nat
      BY <1>5, CallFields DEF ExchangeInv
    <3>2. c \in CallRecords /\ c.at = "sent" /\ c.token = Top.token /\ c.verdict # "rejected"
      BY <3>1, <1>6, SentTyped
    <3>3. call' = [call EXCEPT ![a] = c]
      BY <2>1
    <3> QED  BY <1>3, <1>5, <3>2, <3>3
  <2>3. SyncAnswers'
    BY <1>5, <2>1, SyncKept DEF ExchangeInv
  <2>4. AsyncAnswers'
    BY <1>4, <1>5, <2>1, <2>2, AsyncKept DEF ExchangeInv
  <2>5. ExchangeTypeOK'
    BY <1>1, <1>5, <2>1, <2>2 DEF ExchangeInv, ExchangeTypeOK
  <2>6. ASSUME Undisturbed' PROVE OneHandshake' /\ TokenShown'
    <3>1. OneHandshake /\ TokenShown
      BY <1>1, <1>5, <2>1, <2>6 DEF ExchangeInv, OneToken, Undisturbed
    <3>2. OneHandshake'
      BY <1>1, <3>1 DEF OneHandshake
    <3>3. Top.token = cached /\ cached # 0
      BY <3>1, <1>6, <1>8 DEF TokenShown
    <3>4. \A k \in DOMAIN thread' : thread'[k].verdict = "error" \/ (thread'[k].token = cached' /\ cached' # 0)
      BY <1>1, <1>5, <3>1 DEF TokenShown
    <3>5. \A b \in Async :
            /\ call'[b].verdict # "rejected"
            /\ call'[b].at = "sent" /\ call'[b].verdict = "none" => call'[b].token = cached' /\ cached' # 0
      BY <1>1, <1>4, <2>2, <3>1, <3>3 DEF TokenShown
    <3>6. TokenShown'
      BY <1>1, <3>1, <3>4, <3>5 DEF TokenShown
    <3> QED  BY <3>2, <3>6
  <2> QED  BY <1>5, <2>3, <2>4, <2>5, <2>6 DEF ExchangeInv, OneToken
<1> QED  BY <1>7, <1>8

LEMMA DrainEndsKeeps ==
  ASSUME ExchangeInv, DrainEnds
  PROVE  ExchangeInv'
<1>1. /\ thread # <<>> /\ Top.at = "drain" /\ Pop
      /\ UNCHANGED <<cached, queue, waiting, call, requests, asked, lost, phase, accepts, reloads, answers>>
  BY DEF DrainEnds, target, capability
<1>2. /\ thread' \in Seq(ThreadFrames)
      /\ \A k \in DOMAIN thread' : k \in DOMAIN thread /\ k # Len(thread) /\ thread'[k] = thread[k]
  BY <1>1, PopFrames DEF ExchangeInv, ExchangeTypeOK
<1>3. Len(thread) \in DOMAIN thread /\ Top = thread[Len(thread)] /\ Len(thread) \in Nat \ {0}
  BY <1>1, TopFrame DEF ExchangeInv, ExchangeTypeOK
<1>4. ExchangeTypeOK'
  BY <1>1, <1>2 DEF ExchangeInv, ExchangeTypeOK
<1>5. HeldOnce'
  BY <1>1, <1>2, HeldKept DEF ExchangeInv
<1>6. AsyncAnswers'
  BY <1>1 DEF ExchangeInv, AsyncAnswers
<1>7. SyncAnswers'
  BY <1>1, <1>2, SyncKept DEF ExchangeInv
<1>8. ASSUME Undisturbed' PROVE OneHandshake' /\ TokenShown'
  <2>1. \A k \in DOMAIN thread : k # Len(thread) => k \in DOMAIN thread' /\ thread'[k] = thread[k]
    BY <1>1, <1>2, PopFrames DEF ExchangeInv, ExchangeTypeOK
  <2>2. Undisturbed
    BY <1>1, <1>3, <1>8, <2>1 DEF Undisturbed
  <2>3. OneHandshake /\ TokenShown
    BY <2>2 DEF ExchangeInv, OneToken
  <2>4. OneHandshake'
    BY <1>1, <2>3 DEF OneHandshake
  <2>5. TokenShown'
    BY <1>1, <1>2, <2>3 DEF TokenShown
  <2> QED  BY <2>4, <2>5
<1> QED  BY <1>4, <1>5, <1>6, <1>7, <1>8 DEF ExchangeInv, OneToken

LEMMA InvokeSyncKeeps ==
  ASSUME ExchangeInv, NEW s \in Sync, InvokeSync(s)
  PROVE  ExchangeInv'
<1> PICK f : f = IF cached # 0 THEN Frame(s, "call", cached) ELSE Frame(s, "acquire", 0)
  OBVIOUS
<1> PICK n : n = Len(thread) + 1
  OBVIOUS
<1>1. /\ s \notin Made /\ thread' = Append(thread, f)
      /\ UNCHANGED <<cached, queue, waiting, call, requests, asked, lost, phase, accepts, reloads, answers>>
  BY DEF InvokeSync, target, capability
<1>2. f \in ThreadFrames /\ f.by = s /\ f.calls = <<>> /\ f.at \in {"call", "acquire"}
  <2>1. cached \in Nat /\ 0 \in Nat
    BY DEF ExchangeInv, ExchangeTypeOK
  <2> QED  BY <2>1, FrameTyped
<1>3. /\ thread' \in Seq(ThreadFrames) /\ n \notin DOMAIN thread
      /\ DOMAIN thread' = DOMAIN thread \cup {n} /\ thread'[n] = f
      /\ \A k \in DOMAIN thread : thread'[k] = thread[k]
  BY <1>1, <1>2, PushFrame DEF ExchangeInv, ExchangeTypeOK
<1>4. answers[s] = 0 /\ \A k \in DOMAIN thread : thread[k].by # s
  <2>1. answers[s] \in {0, 1}
    BY DEF ExchangeInv, SyncAnswers
  <2> QED  BY <1>1, <2>1 DEF Made, Running
<1>5. ExchangeTypeOK'
  BY <1>1, <1>3 DEF ExchangeInv, ExchangeTypeOK
<1>6. HeldOnce'
  <2>1. \A k \in DOMAIN thread' : \/ thread'[k].calls = <<>>
                                  \/ k \in DOMAIN thread /\ thread'[k].calls = thread[k].calls
    BY <1>2, <1>3
  <2> QED  BY <1>1, <2>1, HeldKept DEF ExchangeInv
<1>7. AsyncAnswers'
  BY <1>1 DEF ExchangeInv, AsyncAnswers
<1>8. SyncAnswers'
  <2>1. \A k \in DOMAIN thread' : thread'[k].at # "drain" => thread'[k].by \in Sync /\ answers'[thread'[k].by] = 0
    BY <1>1, <1>2, <1>3, <1>4 DEF ExchangeInv, SyncAnswers
  <2>2. \A k, l \in DOMAIN thread' :
          thread'[k].at # "drain" /\ thread'[l].at # "drain" /\ thread'[k].by = thread'[l].by => k = l
    BY <1>2, <1>3, <1>4 DEF ExchangeInv, SyncAnswers
  <2> QED  BY <1>1, <2>1, <2>2 DEF ExchangeInv, SyncAnswers
<1>9. ~Undisturbed'
  BY <1>2, <1>3 DEF Undisturbed
<1> QED  BY <1>5, <1>6, <1>7, <1>8, <1>9 DEF ExchangeInv, OneToken

\* A frame of a synchronous call goes on, in its place: the call is the same,
\* and its owner's thread is disturbed as it was.
LEMMA FrameGoesOn ==
  ASSUME ExchangeInv, NEW k \in DOMAIN thread, thread[k].at # "drain", NEW f \in ThreadFrames,
         f.at # "drain", f.by = thread[k].by, f.calls = <<>> \/ f.calls = thread[k].calls,
         thread' = [thread EXCEPT ![k] = f],
         cached' \in Nat, requests' \subseteq RequestRecords, asked' \in Nat,
         UNCHANGED <<queue, waiting, call, lost, phase, accepts, reloads, answers>>
  PROVE  ExchangeInv'
<1>1. /\ thread' \in Seq(ThreadFrames) /\ DOMAIN thread' = DOMAIN thread /\ thread'[k] = f
      /\ \A l \in DOMAIN thread : l # k => thread'[l] = thread[l]
  BY PutFrame DEF ExchangeInv, ExchangeTypeOK
<1>2. ExchangeTypeOK'
  BY <1>1 DEF ExchangeInv, ExchangeTypeOK
<1>3. HeldOnce'
  <2>1. \A l \in DOMAIN thread' : \/ thread'[l].calls = <<>>
                                  \/ l \in DOMAIN thread /\ thread'[l].calls = thread[l].calls
    BY <1>1
  <2> QED  BY <2>1, HeldKept DEF ExchangeInv
<1>4. AsyncAnswers'
  BY DEF ExchangeInv, AsyncAnswers
<1>5. SyncAnswers'
  <2>1. \A l \in DOMAIN thread' : \/ thread'[l].at = "drain"
                                  \/ l \in DOMAIN thread /\ thread[l].at # "drain" /\ thread'[l].by = thread[l].by
    BY <1>1
  <2> QED  BY <2>1, SyncKept DEF ExchangeInv
<1>6. ~Undisturbed'
  BY <1>1 DEF Undisturbed
<1> QED  BY <1>2, <1>3, <1>4, <1>5, <1>6 DEF ExchangeInv, OneToken

\* ... or returns to its caller.
LEMMA FrameReturns ==
  ASSUME ExchangeInv, thread # <<>>, Top.at # "drain", Pop, Answer(Top.by),
         cached' \in Nat, requests' \subseteq RequestRecords, asked' \in Nat,
         UNCHANGED <<queue, waiting, call, lost, phase, accepts, reloads>>
  PROVE  ExchangeInv'
<1>1. SyncAnswers' /\ AsyncAnswers' /\ answers' \in [Calls -> Nat] /\ ~Undisturbed'
  BY SyncReturns DEF ExchangeInv
<1>2. /\ thread' \in Seq(ThreadFrames)
      /\ \A k \in DOMAIN thread' : k \in DOMAIN thread /\ thread'[k] = thread[k]
  BY PopFrames DEF ExchangeInv, ExchangeTypeOK
<1>3. ExchangeTypeOK'
  BY <1>1, <1>2 DEF ExchangeInv, ExchangeTypeOK
<1>4. HeldOnce'
  BY <1>2, HeldKept DEF ExchangeInv
<1> QED  BY <1>1, <1>3, <1>4 DEF ExchangeInv, OneToken

\* The frame on top is replaced by another of the same call.
LEMMA TopGoesOn ==
  ASSUME ExchangeInv, thread # <<>>, Top.at # "drain",
         NEW at \in {"acquire", "mint", "remint", "call", "recall"}, NEW t \in Nat, SetTop(Frame(Top.by, at, t)),
         cached' \in Nat, requests' \subseteq RequestRecords, asked' \in Nat,
         UNCHANGED <<queue, waiting, call, lost, phase, accepts, reloads, answers>>
  PROVE  ExchangeInv'
<1> PICK n : n = Len(thread)
  OBVIOUS
<1>1. n \in DOMAIN thread /\ Top = thread[n] /\ thread[n].by \in Sync
  BY TopFrame DEF ExchangeInv, ExchangeTypeOK, SyncAnswers
<1> PICK f : f = Frame(Top.by, at, t)
  OBVIOUS
<1>2. f \in ThreadFrames /\ f.at # "drain" /\ f.by = thread[n].by /\ f.calls = <<>>
  BY <1>1, FrameTyped
<1>3. thread' = [thread EXCEPT ![n] = f]
  BY DEF SetTop
<1> QED  BY <1>1, <1>2, <1>3, FrameGoesOn

LEMMA AcquireStepKeeps ==
  ASSUME ExchangeInv, Acquired \/ NotAcquired
  PROVE  ExchangeInv'
<1>1. thread # <<>> /\ Top.at = "acquire" /\ UNCHANGED <<cached, queue, waiting, call, lost, phase, accepts, reloads>>
  BY DEF Acquired, NotAcquired, target, capability
<1>2. cached \in Nat /\ 0 \in Nat /\ requests \subseteq RequestRecords /\ asked \in Nat
  BY DEF ExchangeInv, ExchangeTypeOK
<1>3. Top.by \in Sync
  BY <1>1, TopFrame DEF ExchangeInv, ExchangeTypeOK, SyncAnswers
<1>4. CASE SetTop(Frame(Top.by, "call", cached)) /\ UNCHANGED <<requests, asked, answers>>
  BY <1>1, <1>2, <1>4, TopGoesOn
<1>5. CASE SetTop(Frame(Top.by, "mint", 0)) /\ Ask(Top.by) /\ UNCHANGED answers
  <2>1. asked' \in Nat /\ requests' \subseteq RequestRecords
    BY <1>3, <1>5, AskTyped DEF ExchangeInv
  <2> QED  BY <1>1, <1>2, <1>5, <2>1, TopGoesOn
<1>6. CASE Answer(Top.by) /\ Pop /\ UNCHANGED <<requests, asked>>
  BY <1>1, <1>2, <1>6, FrameReturns
<1> QED  BY <1>4, <1>5, <1>6 DEF Acquired, NotAcquired, capability

LEMMA MintedKeeps ==
  ASSUME ExchangeInv, NEW r \in requests, MintReturns(r)
  PROVE  ExchangeInv'
<1>1. /\ thread # <<>> /\ Top.at \in {"mint", "remint"} /\ requests' = requests \ {r}
      /\ cached' = IF r.token # 0 THEN r.token ELSE cached
      /\ UNCHANGED <<queue, waiting, call, asked, lost, phase, accepts, reloads>>
  BY DEF MintReturns, target
<1>2. r.token \in Nat /\ cached' \in Nat /\ requests' \subseteq RequestRecords /\ asked' \in Nat
  BY <1>1, RequestFields DEF ExchangeInv, ExchangeTypeOK
<1>3. CASE SetTop(Frame(Top.by, "call", r.token)) /\ UNCHANGED answers
  BY <1>1, <1>2, <1>3, TopGoesOn
<1>4. CASE SetTop(Frame(Top.by, "recall", r.token)) /\ UNCHANGED answers
  BY <1>1, <1>2, <1>4, TopGoesOn
<1>5. CASE Pop /\ Answer(Top.by)
  BY <1>1, <1>2, <1>5, FrameReturns
<1> QED  BY <1>1, <1>3, <1>4, <1>5 DEF MintReturns

LEMMA CalledKeeps ==
  ASSUME ExchangeInv, CallReturns
  PROVE  ExchangeInv'
<1>1. /\ thread # <<>> /\ Top.at \in {"call", "recall"}
      /\ UNCHANGED <<queue, waiting, call, lost, phase, accepts, reloads>>
  BY DEF CallReturns, target
<1>2. cached \in Nat /\ 0 \in Nat /\ requests \subseteq RequestRecords /\ asked \in Nat
  BY DEF ExchangeInv, ExchangeTypeOK
<1>3. Top.by \in Sync
  BY <1>1, TopFrame DEF ExchangeInv, ExchangeTypeOK, SyncAnswers
<1>4. CASE cached' = 0 /\ SetTop(Frame(Top.by, "remint", 0)) /\ Ask(Top.by) /\ UNCHANGED answers
  <2>1. asked' \in Nat /\ requests' \subseteq RequestRecords
    BY <1>3, <1>4, AskTyped DEF ExchangeInv
  <2> QED  BY <1>1, <1>2, <1>4, <2>1, TopGoesOn
<1>5. CASE Answer(Top.by) /\ Pop /\ UNCHANGED <<cached, requests, asked>>
  BY <1>1, <1>2, <1>5, FrameReturns
<1> QED  BY <1>4, <1>5 DEF CallReturns

LEMMA SyncVerdictKeeps ==
  ASSUME ExchangeInv, NEW k \in DOMAIN thread, JudgeSync(k) \/ FailSync(k)
  PROVE  ExchangeInv'
<1>1. /\ thread[k].at \in {"call", "recall"}
      /\ UNCHANGED <<cached, queue, waiting, call, requests, asked, lost, phase, accepts, reloads, answers>>
  BY DEF JudgeSync, FailSync, target, capability
<1>2. PICK v \in Verdicts : thread' = [thread EXCEPT ![k].verdict = v]
  BY DEF JudgeSync, FailSync, Verdict, Verdicts
<1> PICK f : f = [thread[k] EXCEPT !.verdict = v]
  OBVIOUS
<1>3. thread[k] \in ThreadFrames
  BY ElementOfSeq, LenProperties DEF ExchangeInv, ExchangeTypeOK
<1>4. f \in ThreadFrames /\ f.at = thread[k].at /\ f.by = thread[k].by /\ f.calls = thread[k].calls
  BY <1>3 DEF ThreadFrames
<1>5. thread' = [thread EXCEPT ![k] = f]
  BY <1>2
<1>6. cached' \in Nat /\ requests' \subseteq RequestRecords /\ asked' \in Nat
  BY <1>1 DEF ExchangeInv, ExchangeTypeOK
<1> QED  BY <1>1, <1>4, <1>5, <1>6, FrameGoesOn

-----------------------------------------------------------------------------
LEMMA ExchangeInvNext == ExchangeInv /\ [ExchangeNext]_exchangeVars => ExchangeInv'
<1> SUFFICES ASSUME ExchangeInv, [ExchangeNext]_exchangeVars PROVE ExchangeInv'
  OBVIOUS
<1>1. CASE TargetLoads \/ TargetSeeds \/ TargetReady \/ TargetUnloads
  BY <1>1, TargetKeeps
<1>2. CASE CapabilityStep
  BY <1>2, CapabilityKeeps
<1>3. CASE AsyncStep
  BY <1>3, VerdictKeeps, ResultKeeps, HandshakeAnsweredKeeps, ReadinessFiresKeeps, ReadinessExpiresKeeps DEF AsyncStep
<1>4. CASE FrameStep
  BY <1>4, DrainOneKeeps, DrainEndsKeeps, AcquireStepKeeps, CalledKeeps, MintedKeeps, SyncVerdictKeeps DEF FrameStep
<1>5. CASE \E r \in requests : Lose(r)
  BY <1>5, LoseKeeps
<1>6. CASE \E a \in Async : InvokeAsync(a)
  BY <1>6, InvokeAsyncKeeps
<1>7. CASE \E s \in Sync : InvokeSync(s)
  BY <1>7, InvokeSyncKeeps
<1>8. CASE UNCHANGED exchangeVars
  <2>1. UNCHANGED <<cached, queue, waiting, call, thread, requests, asked, lost, phase, accepts, reloads, answers>>
    BY <1>8 DEF exchangeVars, client, capability, target
  <2>2. ExchangeTypeOK' /\ HeldOnce'
    BY <2>1 DEF ExchangeInv, ExchangeTypeOK, HeldOnce
  <2>3. AsyncAnswers' /\ SyncAnswers'
    BY <2>1 DEF ExchangeInv, AsyncAnswers, SyncAnswers
  <2>4. OneToken'
    BY <2>1 DEF ExchangeInv, OneToken, Undisturbed, OneHandshake, TokenShown
  <2> QED  BY <2>2, <2>3, <2>4 DEF ExchangeInv
<1> QED  BY <1>1, <1>2, <1>3, <1>4, <1>5, <1>6, <1>7, <1>8 DEF ExchangeNext

\* A call of a client is answered once, for any number of calls, faults and
\* reloads: by the drain that held it, by its result or by its deadline.
THEOREM ClientCallsAnsweredOnce == ExchangeSpec => []AnsweredOnce
<1>1. ExchangeInv => AnsweredOnce
  <2> SUFFICES ASSUME ExchangeInv, NEW c \in Calls PROVE answers[c] <= 1
    BY DEF AnsweredOnce
  <2>1. CASE c \in Async
    BY <2>1 DEF ExchangeInv, AsyncAnswers
  <2>2. CASE c \in Sync
    BY <2>2 DEF ExchangeInv, SyncAnswers
  <2> QED  BY <2>1, <2>2 DEF Calls
<1> QED  BY <1>1, ExchangeInvInit, ExchangeInvNext, PTL DEF ExchangeSpec

\* Asynchronous first calls share one handshake and its token: while the target
\* stays loaded, no reply is lost and no synchronous call has run, the target
\* rejects none of them.
THEOREM SharedTokenAccepted == ExchangeSpec => []FirstCallsNotRejected
<1>1. ExchangeInv => FirstCallsNotRejected
  <2> SUFFICES ASSUME ExchangeInv, reloads = 0, lost = 0, \A s \in Sync : answers[s] = 0 /\ ~Running(s)
               PROVE  \A a \in Async : call[a].verdict # "rejected"
    BY DEF FirstCallsNotRejected
  <2>1. \A k \in DOMAIN thread : thread[k].at = "drain"
    BY DEF Running, ExchangeInv, SyncAnswers
  <2>2. Undisturbed
    BY <2>1 DEF Undisturbed
  <2> QED  BY <2>2 DEF ExchangeInv, OneToken, TokenShown
<1> QED  BY <1>1, ExchangeInvInit, ExchangeInvNext, PTL DEF ExchangeSpec
=============================================================================
