----------------------------- MODULE ModuleProxy -----------------------------
(***************************************************************************)
(* The gate in front of a provider (module_proxy.cpp), composed with the   *)
(* token stores it reads.  A proxy runs on its own thread; the store it    *)
(* was built with is written by any other, so one authorize is two steps,  *)
(* the read of the credential and the scan of the inbound record.          *)
(* constantTimeEquals is equality, and the branch-free fold that carries   *)
(* the caller's name through the scan is the name it yields.  A handler    *)
(* that calls out spins an event loop, so a second call may arrive on the  *)
(* same thread while the first is still being dispatched.                  *)
(***************************************************************************)
EXTENDS TokenStores, Sequences

CONSTANTS
  Providers,     \* identities with a published proxy
  Operator,      \* a token only the host-installed validator accepts
  MaxJudged      \* a bound: pushes and calls that reach a proxy

\* A caller document says what kind of caller it names; here a name stands for
\* the document, and no module has the name of another kind.
Kinds == {"host", "unknown", "none", "rejected"}

ASSUME ProvidersAssumption ==
  /\ Providers \subseteq Names /\ Kinds \cap Names = {}
  /\ Operator \notin Tokens \cup {NoToken}
ASSUME JudgedAssumption == MaxJudged \in Nat

VARIABLES
  proxyStore,    \* m_store, "" before construction
  proxyTokens,   \* m_tokens, by caller name
  gate,          \* the push or the call a proxy is in the middle of
  verdict,       \* what authorize said of the last call
  slot,          \* the caller document of the proxy's thread (logos_caller_scope.cpp)
  frames,        \* the dispatches on that thread, innermost last
  judged

proxyVars == <<proxyStore, proxyTokens, gate, verdict, slot, frames, judged>>
allVars == <<vars, proxyVars>>

Idle == [op |-> "idle", token |-> NoToken, caller |-> "", cred |-> NoToken]
NoVerdict == [token |-> NoToken, who |-> "none", cred |-> NoToken]

ProxyInit ==
  /\ Init
  /\ proxyStore = [p \in Providers |-> ""]
  /\ proxyTokens = [p \in Providers |-> [n \in Peers |-> NoToken]]
  /\ gate = [p \in Providers |-> Idle]
  /\ verdict = [p \in Providers |-> NoVerdict]
  /\ slot = [p \in Providers |-> "none"]
  /\ frames = [p \in Providers |-> <<>>]
  /\ judged = 0

\* The constructor, given the provider identity's own store: the one its
\* informModuleToken writes to.
NewProxy(p) ==
  /\ proxyStore[p] = ""
  /\ ForIdentity(p) /\ tokens' = WithStore(p)
  /\ proxyStore' = [proxyStore EXCEPT ![p] = StoreOf(p)]
  /\ UNCHANGED <<services, held, adopt, exchange, calls, issued,
                 proxyTokens, gate, verdict, slot, frames, judged>>

Reached(p) ==
  /\ proxyStore[p] # "" /\ gate[p] = Idle
  /\ judged < MaxJudged /\ judged' = judged + 1

\* informModuleToken up to the forward: the sender must hold this identity's
\* credential.
InformModuleToken(p, auth, k, t) ==
  /\ Reached(p)
  /\ Credential(proxyStore[p]) # NoToken /\ auth = Credential(proxyStore[p])
  /\ gate' = [gate EXCEPT ![p] = [op |-> "inform", token |-> t, caller |-> k.name, cred |-> auth]]
  /\ UNCHANGED <<vars, proxyStore, proxyTokens, verdict, slot, frames>>

\* The forward to the provider, which may store the token and still answer no
\* (the generated glue), and the proxy's own record of what was accepted.
ProviderInformed(p, stored, ok) ==
  LET g == gate[p] IN
  /\ g.op = "inform"
  /\ tokens' = IF stored THEN SaveInboundToken(tokens, proxyStore[p], Bare(g.caller), g.token) ELSE tokens
  /\ proxyTokens' = IF ok THEN [proxyTokens EXCEPT ![p][g.caller] = g.token] ELSE proxyTokens
  /\ issued' = issued \cup (IF stored THEN {<<proxyStore[p], g.caller, g.token>>} ELSE {})
                      \cup (IF ok THEN {<<p, g.caller, g.token>>} ELSE {})
  /\ gate' = [gate EXCEPT ![p] = Idle]
  /\ UNCHANGED <<registry, services, held, adopt, exchange, calls,
                 proxyStore, verdict, slot, frames, judged>>

\* authorize, its first read of the store: the credential is an argument of
\* the scan, so it is fetched before the inbound record is looked at.
Authorize(p, auth) ==
  /\ Reached(p)
  /\ gate' = [gate EXCEPT ![p] =
       [op |-> "call", token |-> auth, caller |-> "", cred |-> Credential(proxyStore[p])]]
  /\ UNCHANGED <<vars, proxyStore, proxyTokens, verdict, slot, frames>>

\* The names of the proxy's own record under which a token was issued.
ModuleHits(p, t) == {n \in Peers : proxyTokens[p][n] = t}

\* The inbound record of a store authorizes and names nobody.
InStore(s, t) == \E k \in StoreKeys : k.ns = "in" /\ tokens[s][k] = t

\* Mutation of CallerName: a bootstrap key names a caller like any other.
NameAnyKey(hits) == IF Cardinality(hits) = 1 THEN CHOOSE n \in hits : TRUE ELSE "unknown"

\* The name in the fold: of a single hit, unless it is a bootstrap key.
CallerName(hits) ==
  IF Cardinality(hits) = 1 /\ hits \cap BootstrapKeys = {}
  THEN CHOOSE n \in hits : TRUE ELSE "unknown"

Rejected == "rejected"

\* What authorize decides, on the counters of the scan.
Judge(p, t, cred) ==
  LET hits == ModuleHits(p, t)
      anchor == cred # NoToken /\ t = cred
      scanned == hits # {} \/ InStore(proxyStore[p], t) \/ anchor
  IN CASE anchor -> "host"
       [] ~anchor /\ (scanned \/ t = Operator) -> CallerName(hits)
       [] OTHER -> Rejected

\* callRemoteMethod after authorize: a rejected call is answered with the
\* sentinel; any other opens a CallerScope and enters the provider.
Dispatch(p) ==
  LET g == gate[p]
      who == Judge(p, g.token, g.cred)
  IN /\ g.op = "call"
     /\ verdict' = [verdict EXCEPT ![p] = [token |-> g.token, who |-> who, cred |-> g.cred]]
     /\ gate' = [gate EXCEPT ![p] = Idle]
     /\ IF who = Rejected THEN UNCHANGED <<slot, frames>>
        ELSE /\ frames' = [frames EXCEPT ![p] = Append(@, [who |-> who, previous |-> slot[p]])]
             /\ slot' = [slot EXCEPT ![p] = who]
     /\ UNCHANGED <<vars, proxyStore, proxyTokens, judged>>

\* Mutation of Return: the scope clears on exit.
ReturnCleared(p) ==
  LET n == Len(frames[p]) IN
  /\ n > 0 /\ gate[p] = Idle
  /\ slot' = [slot EXCEPT ![p] = "none"]
  /\ frames' = [frames EXCEPT ![p] = SubSeq(@, 1, n - 1)]
  /\ UNCHANGED <<vars, proxyStore, proxyTokens, gate, verdict, judged>>

\* The handler returns, or throws: the scope restores what it replaced.
Return(p) ==
  LET n == Len(frames[p]) IN
  /\ n > 0 /\ gate[p] = Idle
  /\ slot' = [slot EXCEPT ![p] = frames[p][n].previous]
  /\ frames' = [frames EXCEPT ![p] = SubSeq(@, 1, n - 1)]
  /\ UNCHANGED <<vars, proxyStore, proxyTokens, gate, verdict, judged>>

ProxyNext ==
  \/ Next /\ UNCHANGED proxyVars
  \/ \E p \in Providers :
       \/ NewProxy(p)
       \/ \E auth \in Creds \cup {HostAnchor}, n \in Peers, t \in Minted :
            InformModuleToken(p, auth, Bare(n), t)
       \/ \E stored, ok \in BOOLEAN : ProviderInformed(p, stored, ok)
       \/ \E auth \in Tokens \cup {Operator} : Authorize(p, auth)
       \/ Dispatch(p) \/ Return(p)

ProxySpec == ProxyInit /\ [][ProxyNext]_allVars

-----------------------------------------------------------------------------
\* A token is accepted only where it was issued: by a push this proxy or its
\* own store accepted on the trusted channel, as this identity's credential,
\* or by the host's validator.  A token cached in order to call somebody, one
\* pushed to another isolated provider and one refused authorize nothing.
AcceptedWasIssued ==
  \A p \in Providers : LET v == verdict[p] IN
    v.who \notin {"none", Rejected} =>
      \/ v.token = Operator
      \/ v.who = "host" /\ v.token = v.cred
      \/ \E n \in Peers : <<p, n, v.token>> \in issued \/ <<proxyStore[p], n, v.token>> \in issued

\* A provider is told the name of its caller only when this proxy accepted a
\* push of that very token under that name, and never a role label.
NamedCallerWasIssued ==
  \A p \in Providers : LET v == verdict[p] IN
    v.who \in Peers => v.who \in Names /\ <<p, v.who, v.token>> \in issued

\* The host's anchor is still where the host put it: instance() has it under
\* the bootstrap key that is read first.
AnchorInPlace == tokens[Shared][Bare("core")] = HostAnchor

\* An isolated provider never takes the host's own anchor for its credential,
\* whatever was adopted, reset, saved and exchanged before (adoptCredentialFor),
\* unless the anchor was replaced in instance(), by lp_token_save of a bootstrap
\* key or by a client of a module called "core": adoptCredentialFor compares
\* with what is there now.
AnchorIsNotPrivate ==
  AnchorInPlace => \A p \in Providers :
    verdict[p].who = "host" /\ proxyStore[p] # Shared => verdict[p].token # HostAnchor

\* Who a provider is told is calling, and that it is told at all, rests on a
\* grant that was made to this provider.
CallerWasIssued == AcceptedWasIssued /\ NamedCallerWasIssued /\ AnchorIsNotPrivate

\* A handler reads its own caller for as long as it runs, also after a call
\* that was dispatched inside it on the same thread has come and gone, and
\* outside every dispatch there is no caller.
HandlerSeesItsCaller ==
  \A p \in Providers :
    slot[p] = IF frames[p] = <<>> THEN "none" ELSE frames[p][Len(frames[p])].who
=============================================================================
