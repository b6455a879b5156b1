-------------------------- MODULE TokenCacheProofs --------------------------
(***************************************************************************)
(* Inv is inductive, and what it says of a found token and of the tokens   *)
(* a call has tried is what leaves only the named reasons for a denial.    *)
(***************************************************************************)
EXTENDS TokenCache, TLAPS

----------------------------------------------------------------------------
\* The states of a call.

LEMMA CallType ==
  ASSUME Inv, NEW c \in Calls, call[c].pc # "idle"
  PROVE  /\ call[c] \in CallStates
         /\ call[c].repo \in Repos
         /\ call[c].token \in Tokens \cup {0}
         /\ call[c].began \in Nat
         /\ OwnerFor(c) \in Owners
<1>1. call[c] \in CallStates
  BY DEF Inv, TypeOK, Idle, Started
<1> QED
  BY <1>1 DEF CallStates, OwnerFor, Owners

LEMMA EndedType ==
  ASSUME NEW r \in Repos, NEW pc \in Ends \cup {"lock"},
         NEW t \in Tokens \cup {0}
  PROVE  /\ Ended(r, pc, t) \in CallStates
         /\ Ended(r, pc, t).pc = pc
         /\ Ended(r, pc, t).repo = r
         /\ Ended(r, pc, t).token = t
  BY DEF Ended, Started, CallStates, Ends

\* The look at the cache and what follows it leave the rest as it is.
Settled == UNCHANGED <<grant, cache, probed, found, changes>>

\* A step that gives one call a new state s, and the lock to nobody or to it.
LEMMA CallKeeps ==
  ASSUME Inv, NEW c \in Calls, NEW s \in CallStates \cup {Idle},
         Settled, call' = [call EXCEPT ![c] = s],
         mu = None \/ mu = c,
         mu' = IF s.pc = "probe" THEN c ELSE None,
         s.pc = "probe" =>
           /\ s.token \in Tokens
           /\ cache[OwnerOf[s.repo]] = 0
           /\ s.began <= changes
           /\ s.began = changes /\ ~s.faulted =>
                \A t \in 1..(s.token - 1) : grant[t][s.repo] = "refused",
         s.pc = "read" =>
           /\ s.token \in Tokens
           /\ s.token = cache[OwnerOf[s.repo]]
  PROVE  Inv'
<1>1. call'[c] = s /\ \A d \in Calls \ {c} : call'[d] = call[d]
  BY DEF Inv, TypeOK
<1>2. TypeOK'
  BY DEF Inv, TypeOK, Settled
<1>3. OneProber'
  <2>1. ASSUME NEW d \in Calls
        PROVE  /\ mu' = d <=> call'[d].pc = "probe"
               /\ call'[d].pc = "probe" =>
                    /\ call'[d].token \in Tokens
                    /\ cache[OwnerOf[call'[d].repo]] = 0
    <3>1. CASE d = c
      BY <1>1, <3>1, NoneAssumption
    <3>2. CASE d # c
      <4>1. mu # d /\ call[d].pc # "probe"
        BY <3>2, NoneAssumption DEF Inv, OneProber
      <4> QED
        BY <1>1, <3>2, <4>1, NoneAssumption
    <3> QED
      BY <3>1, <3>2
  <2> QED
    BY <2>1 DEF OneProber, OwnerFor, Settled
<1>4. OneTokenPerOwner'
  <2>1. ASSUME NEW d \in Calls, call'[d].pc = "read"
        PROVE  /\ call'[d].token \in Tokens
               /\ call'[d].token = cache[OwnerOf[call'[d].repo]]
    BY <1>1, <2>1 DEF Inv, OneTokenPerOwner, OwnerFor
  <2> QED
    BY <2>1 DEF OneTokenPerOwner, OwnerFor, Settled
<1>5. FoundForOwner'
  BY DEF Inv, FoundForOwner, Settled
<1>6. TriedInOrder'
  <2>1. ASSUME NEW d \in Calls, call'[d].pc = "probe"
        PROVE  /\ call'[d].began <= changes
               /\ call'[d].began = changes /\ ~call'[d].faulted =>
                    \A t \in 1..(call'[d].token - 1) :
                      grant[t][call'[d].repo] = "refused"
    BY <1>1, <2>1 DEF Inv, TriedInOrder
  <2> QED
    BY <2>1 DEF TriedInOrder, Settled
<1> QED
  BY <1>2, <1>3, <1>4, <1>5, <1>6 DEF Inv

\* GoOn, with the next token or without one.
LEMMA GoOnKeeps ==
  ASSUME Inv, NEW c \in Calls, NEW i \in Nat \ {0}, NEW faulted \in BOOLEAN,
         Settled, GoOn(c, i, faulted), call[c].pc \in {"lock", "probe"},
         mu = None \/ mu = c, cache[OwnerFor(c)] = 0,
         NEW began \in Nat,
         began = IF call[c].pc = "lock" THEN changes ELSE call[c].began,
         began <= changes,
         began = changes /\ ~faulted =>
           \A t \in 1..(i - 1) : grant[t][call[c].repo] = "refused"
  PROVE  Inv'
<1>1. /\ call[c] \in CallStates /\ call[c].repo \in Repos
      /\ call[c].began \in Nat /\ changes \in Nat
  BY CallType, MaxChangesAssumption DEF Inv, TypeOK
<1>2. CASE i \in Tokens
  <2> DEFINE s == [call[c] EXCEPT !.pc = "probe", !.token = i,
                                  !.faulted = faulted, !.began = began]
  <2>2. /\ s \in CallStates /\ s.pc = "probe" /\ s.repo = call[c].repo
        /\ s.token = i /\ s.faulted = faulted /\ s.began = began
    BY <1>1, <1>2 DEF CallStates
  <2>3. call' = [call EXCEPT ![c] = s] /\ mu' = c
    BY <1>2 DEF GoOn
  <2>4. cache[OwnerOf[s.repo]] = 0
    BY <2>2 DEF OwnerFor
  <2>5. /\ began <= changes
        /\ began = changes /\ ~faulted =>
             \A t \in 1..(i - 1) : grant[t][call[c].repo] = "refused"
    OBVIOUS
  <2> HIDE DEF s
  <2> QED
    BY <1>2, <2>2, <2>3, <2>4, <2>5, CallKeeps
<1>3. CASE i \notin Tokens
  <2> DEFINE s == Ended(call[c].repo, "unauthorized", 0)
  <2>1. s \in CallStates /\ s.pc = "unauthorized"
    BY <1>1, EndedType DEF Ends
  <2>2. call' = [call EXCEPT ![c] = s] /\ mu' = None
    BY <1>3 DEF GoOn
  <2> HIDE DEF s
  <2> QED
    BY <2>1, <2>2, CallKeeps
<1> QED
  BY <1>2, <1>3

----------------------------------------------------------------------------
\* Each step preserves Inv.

LEMMA InitInv == Init => Inv
<1> SUFFICES ASSUME Init
             PROVE  Inv
  OBVIOUS
<1>1. Idle.pc = "idle"
  BY DEF Idle, Started
<1>2. \A c \in Calls : call[c].pc = "idle" /\ mu # c
  BY <1>1, NoneAssumption DEF Init
<1>3. TypeOK
  BY MaxChangesAssumption DEF Init, TypeOK
<1>4. FoundForOwner
  BY DEF Init, FoundForOwner
<1> QED
  BY <1>2, <1>3, <1>4 DEF Inv, OneProber, OneTokenPerOwner, TriedInOrder

\* A change of access is counted, so nothing found or tried before it claims
\* anything.
LEMMA ChangeKeeps ==
  ASSUME Inv, NEW t \in Tokens, NEW r \in Repos, NEW g \in Grants,
         ChangeAccess(t, r, g)
  PROVE  Inv'
<1>1. /\ changes \in Nat /\ changes' = changes + 1
      /\ UNCHANGED <<cache, mu, call, probed, found>>
  BY MaxChangesAssumption DEF Inv, TypeOK, ChangeAccess
<1>2. TypeOK'
  <2>1. changes' \in 0..MaxChanges
    BY <1>1, MaxChangesAssumption DEF ChangeAccess
  <2>2. grant' \in [Tokens -> [Repos -> Grants]]
    BY DEF Inv, TypeOK, ChangeAccess
  <2> QED
    BY <1>1, <2>1, <2>2 DEF Inv, TypeOK
<1>3. FoundForOwner'
  <2>1. \A o \in Owners : found[o] \in Nat
    BY DEF Inv, TypeOK
  <2> QED
    BY <1>1, <2>1 DEF Inv, FoundForOwner
<1>4. TriedInOrder'
  <2>1. ASSUME NEW c \in Calls, call[c].pc = "probe"
        PROVE  call[c].began < changes'
    BY <1>1, <2>1, CallType DEF Inv, TriedInOrder
  <2>2. ASSUME NEW c \in Calls, call'[c].pc = "probe"
        PROVE  call'[c].began <= changes' /\ call'[c].began # changes'
    <3>1. call[c].began < changes' /\ call[c].began \in Nat
      BY <1>1, <2>1, <2>2, CallType
    <3> QED
      BY <1>1, <3>1
  <2> QED
    BY <2>2 DEF TriedInOrder
<1> QED
  BY <1>1, <1>2, <1>3, <1>4
     DEF Inv, OneProber, OneTokenPerOwner, OwnerFor

\* A call that probes holds the lock.
LEMMA ProbeHolds ==
  ASSUME Inv, NEW c \in Calls, call[c].pc = "probe"
  PROVE  /\ mu = c /\ cache[OwnerFor(c)] = 0
         /\ call[c].token \in Tokens /\ call[c].token \in Nat \ {0}
         /\ call[c].faulted \in BOOLEAN
         /\ call[c].began \in Nat /\ changes \in Nat
<1>1. call[c].token \in Tokens
  BY DEF Inv, OneProber
<1>2. call[c] \in CallStates
  BY CallType
<1> QED
  BY <1>1, <1>2, NumTokensAssumption, MaxChangesAssumption
     DEF Inv, OneProber, TypeOK, Tokens, CallStates

LEMMA LookKeeps ==
  ASSUME Inv, NEW c \in Calls, Look(c)
  PROVE  Inv'
<1> DEFINE t == cache[OwnerFor(c)]
<1> DEFINE s == [call[c] EXCEPT !.pc = IF t = 0 THEN "lock" ELSE "read",
                                !.token = t]
<1>1. call[c] \in CallStates /\ OwnerFor(c) \in Owners
  BY CallType DEF Look
<1>2. t \in Tokens \cup {0}
  BY <1>1 DEF Inv, TypeOK
<1>3. /\ s \in CallStates /\ s.repo = call[c].repo /\ s.token = t
      /\ s.pc = IF t = 0 THEN "lock" ELSE "read"
  BY <1>1, <1>2 DEF CallStates, Ends
<1>4. call' = [call EXCEPT ![c] = s] /\ mu = None /\ mu' = None /\ Settled
  BY DEF Look, Settled
<1>5. s.pc = "read" => s.token \in Tokens /\ s.token = cache[OwnerOf[s.repo]]
  BY <1>2, <1>3 DEF OwnerFor
<1>6. s.pc # "probe"
  BY <1>3
<1> HIDE DEF s, t
<1> QED
  BY <1>3, <1>4, <1>5, <1>6, CallKeeps

LEMMA AcquireKeeps ==
  ASSUME Inv, NEW c \in Calls, Acquire(c)
  PROVE  Inv'
<1> DEFINE t == cache[OwnerFor(c)]
<1>1. /\ call[c].repo \in Repos /\ OwnerFor(c) \in Owners
      /\ call[c].pc = "lock" /\ mu = None /\ Settled
      /\ changes \in Nat
  BY CallType, MaxChangesAssumption DEF Acquire, Settled, Inv, TypeOK
<1>2. CASE t # 0
  <2> DEFINE s == Ended(call[c].repo, "read", t)
  <2>1. t \in Tokens
    BY <1>1, <1>2 DEF Inv, TypeOK
  <2>2. s \in CallStates /\ s.pc = "read" /\ s.repo = call[c].repo /\ s.token = t
    BY <1>1, <2>1, EndedType DEF Ends
  <2>3. call' = [call EXCEPT ![c] = s] /\ mu' = None
    BY <1>1, <1>2 DEF Acquire
  <2>4. s.token = cache[OwnerOf[s.repo]]
    BY <2>2 DEF OwnerFor
  <2> HIDE DEF s, t
  <2> QED
    BY <1>1, <2>1, <2>2, <2>3, <2>4, CallKeeps
<1>3. CASE t = 0
  <2> DEFINE faulted == FALSE
  <2>1. GoOn(c, 1, faulted) /\ faulted \in BOOLEAN
    BY <1>3 DEF Acquire
  <2>2. \A u \in 1..(1 - 1) : grant[u][call[c].repo] = "refused"
    OBVIOUS
  <2>3. /\ changes \in Nat /\ changes <= changes
        /\ changes = IF call[c].pc = "lock" THEN changes ELSE call[c].began
        /\ changes = changes /\ ~faulted =>
             \A u \in 1..(1 - 1) : grant[u][call[c].repo] = "refused"
    BY <1>1, <2>2
  <2>4. cache[OwnerFor(c)] = 0 /\ 1 \in Nat \ {0}
    BY <1>3
  <2> HIDE DEF t, faulted
  <2> QED
    BY <1>1, <2>1, <2>3, <2>4, GoOnKeeps
<1> QED
  BY <1>2, <1>3

LEMMA RefusedKeeps ==
  ASSUME Inv, NEW c \in Calls, Refused(c)
  PROVE  Inv'
<1> DEFINE i == call[c].token
<1>1. /\ call[c].pc = "probe" /\ Settled
      /\ grant[i][call[c].repo] = "refused"
      /\ GoOn(c, i + 1, call[c].faulted)
  BY DEF Refused, Settled
<1>2. /\ mu = c /\ cache[OwnerFor(c)] = 0 /\ i \in Nat \ {0}
      /\ call[c].faulted \in BOOLEAN
      /\ call[c].began \in Nat /\ changes \in Nat
  BY <1>1, ProbeHolds
<1>3. /\ call[c].began <= changes
      /\ call[c].began = changes /\ ~call[c].faulted =>
           \A t \in 1..(i - 1) : grant[t][call[c].repo] = "refused"
  BY <1>1 DEF Inv, TriedInOrder
<1> HIDE DEF i
<1>4. \A t \in 1..((i + 1) - 1) : t \in 1..(i - 1) \/ t = i
  BY <1>2
<1>5. call[c].began = changes /\ ~call[c].faulted =>
        \A t \in 1..((i + 1) - 1) : grant[t][call[c].repo] = "refused"
  BY <1>1, <1>3, <1>4 DEF i
<1>6. i + 1 \in Nat \ {0}
  BY <1>2
<1> QED
  BY <1>1, <1>2, <1>3, <1>5, <1>6, GoOnKeeps

LEMMA UnansweredKeeps ==
  ASSUME Inv, NEW c \in Calls, Unanswered(c)
  PROVE  Inv'
<1> DEFINE faulted == TRUE
<1>1. /\ call[c].pc = "probe" /\ Settled
      /\ GoOn(c, call[c].token + 1, faulted)
      /\ faulted /\ faulted \in BOOLEAN
  BY DEF Unanswered, Settled
<1>2. /\ mu = c /\ cache[OwnerFor(c)] = 0
      /\ call[c].token + 1 \in Nat \ {0} /\ call[c].began \in Nat
  BY <1>1, ProbeHolds
<1>3. call[c].began <= changes
  BY <1>1 DEF Inv, TriedInOrder
<1> HIDE DEF faulted
<1> QED
  BY <1>1, <1>2, <1>3, GoOnKeeps

\* Nobody read for the owner before: it had no token.
LEMMA AcceptedKeeps ==
  ASSUME Inv, NEW c \in Calls, Accepted(c)
  PROVE  Inv'
<1> DEFINE t == call[c].token
<1> DEFINE o == OwnerFor(c)
<1> DEFINE s == Ended(call[c].repo, "read", t)
<1>1. /\ call[c].pc = "probe"
      /\ grant[t][call[c].repo] # "refused"
      /\ cache' = [cache EXCEPT ![o] = t]
      /\ probed' = [probed EXCEPT ![o] = call[c].repo]
      /\ found' = [found EXCEPT ![o] = changes]
      /\ call' = [call EXCEPT ![c] = s]
      /\ mu' = None
      /\ UNCHANGED <<grant, changes>>
  BY DEF Accepted
<1>2. /\ mu = c /\ cache[o] = 0 /\ t \in Tokens /\ t # 0 /\ changes \in Nat
      /\ call[c].repo \in Repos /\ o \in Owners
  BY <1>1, ProbeHolds, CallType
<1>3. s \in CallStates /\ s.pc = "read" /\ s.repo = call[c].repo /\ s.token = t
  BY <1>2, EndedType DEF Ends
<1>4. OwnerOf[call[c].repo] = o
  BY DEF OwnerFor
<1> HIDE DEF s, t, o
<1>5. /\ call'[c] = s /\ \A d \in Calls \ {c} : call'[d] = call[d]
      /\ cache'[o] = t /\ \A p \in Owners \ {o} : cache'[p] = cache[p]
  BY <1>1, <1>2 DEF Inv, TypeOK
<1>6. TypeOK'
  <2>1. call' \in [Calls -> CallStates \cup {Idle}]
    BY <1>1, <1>3 DEF Inv, TypeOK
  <2>2. /\ cache' \in [Owners -> Tokens \cup {0}]
        /\ probed' \in [Owners -> Repos \cup {None}]
        /\ found' \in [Owners -> Nat]
    BY <1>1, <1>2 DEF Inv, TypeOK
  <2> QED
    BY <1>1, <2>1, <2>2 DEF Inv, TypeOK
<1>7. \A d \in Calls \ {c} : call[d].pc # "probe" /\ mu # d
  BY <1>2 DEF Inv, OneProber
<1>8. OneProber'
  <2>1. \A d \in Calls : call'[d].pc # "probe" /\ mu' # d
    BY <1>1, <1>3, <1>5, <1>7, NoneAssumption
  <2> QED
    BY <2>1 DEF OneProber
<1>9. OneTokenPerOwner'
  <2>1. ASSUME NEW d \in Calls, call'[d].pc = "read"
        PROVE  /\ call'[d].token \in Tokens
               /\ call'[d].token = cache'[OwnerOf[call'[d].repo]]
    <3>1. CASE d = c
      BY <1>2, <1>3, <1>4, <1>5, <3>1
    <3>2. CASE d # c
      <4>1. call'[d] = call[d] /\ call[d].pc = "read"
        BY <1>5, <2>1, <3>2
      <4>2. /\ call[d].token \in Tokens
            /\ call[d].token = cache[OwnerOf[call[d].repo]]
        BY <4>1 DEF Inv, OneTokenPerOwner, OwnerFor
      <4>3. OwnerOf[call[d].repo] \in Owners
        BY <4>1, CallType DEF OwnerFor
      <4>4. 0 \notin Tokens
        BY NumTokensAssumption DEF Tokens
      <4>5. OwnerOf[call[d].repo] # o
        BY <1>2, <4>2, <4>4
      <4> QED
        BY <1>5, <4>1, <4>2, <4>3, <4>5
    <3> QED
      BY <3>1, <3>2
  <2> QED
    BY <2>1 DEF OneTokenPerOwner, OwnerFor
<1>10. FoundForOwner'
  <2>1. ASSUME NEW p \in Owners, cache'[p] # 0
        PROVE  /\ probed'[p] \in Repos
               /\ OwnerOf[probed'[p]] = p
               /\ found'[p] <= changes
               /\ found'[p] = changes => grant[cache'[p]][probed'[p]] # "refused"
    <3>1. CASE p = o
      <4>1. probed'[p] = call[c].repo /\ found'[p] = changes
        BY <1>1, <1>2, <3>1 DEF Inv, TypeOK
      <4> QED
        BY <1>1, <1>2, <1>4, <1>5, <3>1, <4>1
    <3>2. CASE p # o
      <4>1. probed'[p] = probed[p] /\ found'[p] = found[p] /\ cache'[p] = cache[p]
        BY <1>1, <1>5, <3>2 DEF Inv, TypeOK
      <4> QED
        BY <2>1, <4>1 DEF Inv, FoundForOwner
    <3> QED
      BY <3>1, <3>2
  <2> QED
    BY <1>1, <2>1 DEF FoundForOwner
<1>11. TriedInOrder'
  BY <1>3, <1>5, <1>7 DEF TriedInOrder
<1> QED
  BY <1>6, <1>8, <1>9, <1>10, <1>11 DEF Inv

LEMMA RateLimitedKeeps ==
  ASSUME Inv, NEW c \in Calls, RateLimited(c)
  PROVE  Inv'
<1> DEFINE s == Ended(call[c].repo, "rate_limited", 0)
<1>1. /\ call[c].pc = "probe" /\ Settled /\ mu' = None
      /\ call' = [call EXCEPT ![c] = s]
  BY DEF RateLimited, Settled
<1>2. mu = c /\ call[c].repo \in Repos
  BY <1>1, ProbeHolds, CallType
<1>3. s \in CallStates /\ s.pc = "rate_limited"
  BY <1>2, EndedType DEF Ends
<1> HIDE DEF s
<1> QED
  BY <1>1, <1>2, <1>3, CallKeeps

\* A call that begins or returns does not hold the lock, and does not change it.
LEMMA RestKeeps ==
  ASSUME Inv, NEW c \in Calls, Return(c) \/ \E r \in Repos : Begin(c, r)
  PROVE  Inv'
<1>1. PICK s \in CallStates \cup {Idle} :
        s.pc \in {"start", "idle"} /\ call' = [call EXCEPT ![c] = s]
  <2>1. CASE Return(c)
    BY <2>1 DEF Return, Idle, Started
  <2>2. ASSUME NEW r \in Repos, Begin(c, r)
        PROVE  call' = [call EXCEPT ![c] = Started(r)]
               /\ Started(r) \in CallStates /\ Started(r).pc = "start"
    BY <2>2 DEF Begin, Started, CallStates
  <2> QED
    BY <2>1, <2>2
<1>2. mu # c /\ mu' = mu /\ Settled
  BY DEF Return, Begin, Ends, Inv, OneProber, Settled
<1>3. call'[c] = s /\ \A d \in Calls \ {c} : call'[d] = call[d]
  BY <1>1 DEF Inv, TypeOK
<1>4. TypeOK'
  BY <1>1, <1>2 DEF Inv, TypeOK, Settled
<1>5. OneProber'
  <2>1. ASSUME NEW d \in Calls
        PROVE  /\ mu' = d <=> call'[d].pc = "probe"
               /\ call'[d].pc = "probe" =>
                    /\ call'[d].token \in Tokens
                    /\ cache[OwnerOf[call'[d].repo]] = 0
    BY <1>1, <1>2, <1>3 DEF Inv, OneProber, OwnerFor
  <2> QED
    BY <1>2, <2>1 DEF OneProber, OwnerFor, Settled
<1>6. OneTokenPerOwner'
  <2>1. ASSUME NEW d \in Calls, call'[d].pc = "read"
        PROVE  /\ call'[d].token \in Tokens
               /\ call'[d].token = cache[OwnerOf[call'[d].repo]]
    BY <1>1, <1>3, <2>1 DEF Inv, OneTokenPerOwner, OwnerFor
  <2> QED
    BY <1>2, <2>1 DEF OneTokenPerOwner, OwnerFor, Settled
<1>7. FoundForOwner'
  BY <1>2 DEF Inv, FoundForOwner, Settled
<1>8. TriedInOrder'
  <2>1. ASSUME NEW d \in Calls, call'[d].pc = "probe"
        PROVE  call'[d] = call[d]
    BY <1>1, <1>3, <2>1
  <2> QED
    BY <1>2, <2>1 DEF Inv, TriedInOrder, Settled
<1> QED
  BY <1>4, <1>5, <1>6, <1>7, <1>8 DEF Inv

LEMMA StutterKeeps ==
  ASSUME Inv, UNCHANGED vars
  PROVE  Inv'
  BY DEF Inv, vars, TypeOK, OneProber, OneTokenPerOwner, FoundForOwner,
         TriedInOrder, OwnerFor

LEMMA StepKeeps ==
  ASSUME Inv, [Next]_vars
  PROVE  Inv'
<1>1. ASSUME NEW t \in Tokens, NEW r \in Repos, NEW g \in Grants,
             ChangeAccess(t, r, g)
      PROVE  Inv'
  BY <1>1, ChangeKeeps
<1>2. ASSUME NEW c \in Calls, Call(c)
      PROVE  Inv'
  BY <1>2, RestKeeps, LookKeeps, AcquireKeeps, RefusedKeeps, UnansweredKeeps,
     AcceptedKeeps, RateLimitedKeeps DEF Call
<1>3. CASE UNCHANGED vars
  BY <1>3, StutterKeeps
<1> QED
  BY <1>1, <1>2, <1>3 DEF Next

\* For any number of tokens, calls and repositories: one prober at a time, one
\* token per owner, found and tried as they say.
THEOREM InvHolds == Spec => []Inv
  BY InitInv, StepKeeps, PTL DEF Spec

----------------------------------------------------------------------------
\* OnlyKnownDenials.

\* A cached token reads the repository, or there is a reason.
LEMMA CachedExcused ==
  ASSUME Inv, NEW c \in Calls, call[c].pc # "idle", cache[OwnerFor(c)] # 0,
         call'[c].pc = "read", call'[c].token = cache[OwnerFor(c)],
         Denied(c)
  PROVE  Excused(c)
<1> DEFINE o == OwnerFor(c)
<1>1. o \in Owners /\ call[c].repo \in Repos
  BY CallType
<1>2. /\ found[o] <= changes /\ found[o] \in Nat /\ changes \in Nat
      /\ found[o] = changes => grant[cache[o]][probed[o]] # "refused"
  BY <1>1, MaxChangesAssumption DEF Inv, FoundForOwner, TypeOK
<1>3. CASE probed[o] # call[c].repo
  BY <1>3 DEF Excused, ChosenForAnother
<1>4. CASE found[o] # changes
  BY <1>2, <1>4 DEF Excused, NotChosenAgain
<1>5. CASE probed[o] = call[c].repo /\ found[o] = changes
  <2>1. cache[o] \in Tokens
    BY <1>1 DEF Inv, TypeOK
  <2>2. grant[cache[o]] \in [Repos -> Grants]
    BY <2>1 DEF Inv, TypeOK
  <2>3. grant[cache[o]][call[c].repo] \in {"read", "hidden", "refused"}
    BY <1>1, <2>2 DEF Grants
  <2>4. grant[cache[o]][call[c].repo] # "read"
    BY DEF Denied
  <2> QED
    BY <1>2, <1>5, <2>3, <2>4 DEF Excused, NotFoundAccepted
<1> QED
  BY <1>3, <1>4, <1>5

LEMMA DenialExcused ==
  ASSUME Inv, NEW c \in Calls, Call(c), Denied(c)
  PROVE  Excused(c)
<1>1. /\ call[c].pc \notin Ends /\ call'[c].pc \in Ends
      /\ \E t \in Tokens : grant[t][call[c].repo] = "read"
      /\ call \in [Calls -> CallStates \cup {Idle}]
      /\ grant \in [Tokens -> [Repos -> Grants]]
  BY DEF Denied, Answered, Inv, TypeOK
<1>2. CASE Look(c)
  <2>1. call[c] \in CallStates
    BY <1>2, CallType DEF Look
  <2>2. /\ call'[c] = [call[c] EXCEPT
                         !.pc = IF cache[OwnerFor(c)] = 0 THEN "lock" ELSE "read",
                         !.token = cache[OwnerFor(c)]]
    BY <1>1, <1>2 DEF Look
  <2>3. /\ call'[c].pc = IF cache[OwnerFor(c)] = 0 THEN "lock" ELSE "read"
        /\ call'[c].token = cache[OwnerFor(c)]
    BY <2>1, <2>2 DEF CallStates
  <2> QED
    BY <1>1, <1>2, <2>3, CachedExcused DEF Look, Ends
<1>3. CASE Acquire(c)
  <2> DEFINE t == cache[OwnerFor(c)]
  <2>1. call[c].repo \in Repos /\ OwnerFor(c) \in Owners
    BY <1>3, CallType DEF Acquire
  <2>2. CASE t # 0
    <3>1. t \in Tokens
      BY <2>1, <2>2 DEF Inv, TypeOK
    <3>2. call'[c] = Ended(call[c].repo, "read", t)
      BY <1>1, <1>3, <2>2 DEF Acquire
    <3>3. call'[c].pc = "read" /\ call'[c].token = t
      BY <2>1, <3>1, <3>2, EndedType DEF Ends
    <3> QED
      BY <1>3, <2>2, <3>3, CachedExcused DEF Acquire
  <2>3. CASE t = 0
    <3>1. 1 \in Tokens
      BY <1>1, NumTokensAssumption DEF Tokens
    <3>2. call'[c].pc = "probe"
      BY <1>1, <1>3, <2>1, <2>3, <3>1, CallType
         DEF Acquire, GoOn, CallStates
    <3> QED
      BY <1>1, <3>2 DEF Ends
  <2> QED
    BY <2>2, <2>3
<1>4. CASE Refused(c)
  <2> DEFINE i == call[c].token
  <2>1. /\ call[c].pc = "probe" /\ grant[i][call[c].repo] = "refused"
        /\ GoOn(c, i + 1, call[c].faulted)
    BY <1>4 DEF Refused
  <2>2. i \in Tokens /\ i \in Nat /\ call[c].began \in Nat /\ changes \in Nat
        /\ call[c].faulted \in BOOLEAN
    BY <2>1, ProbeHolds
  <2>3. i + 1 \notin Tokens
    <3>1. ASSUME i + 1 \in Tokens
          PROVE  call'[c].pc = "probe"
      BY <1>1, <2>1, <3>1, CallType DEF GoOn, CallStates
    <3> QED
      BY <1>1, <3>1 DEF Ends
  <2>4. i = NumTokens
    BY <2>2, <2>3, NumTokensAssumption DEF Tokens
  <2>5. call[c].began <= changes
        /\ (call[c].began = changes /\ ~call[c].faulted =>
              \A t \in 1..(i - 1) : grant[t][call[c].repo] = "refused")
    BY <2>1 DEF Inv, TriedInOrder
  <2>6. CASE call[c].faulted
    BY <2>6 DEF Excused, ProbeUnanswered
  <2>7. CASE call[c].began # changes
    BY <2>1, <2>2, <2>5, <2>7 DEF Excused, ChangedMeanwhile
  <2>8. CASE ~call[c].faulted /\ call[c].began = changes
    <3>1. \A t \in Tokens : t = i \/ t \in 1..(i - 1)
      BY <2>4, NumTokensAssumption DEF Tokens
    <3>2. \A t \in Tokens : grant[t][call[c].repo] = "refused"
      BY <2>1, <2>5, <2>8, <3>1
    <3> QED
      BY <1>1, <3>2
  <2> QED
    BY <2>6, <2>7, <2>8
<1>5. CASE Unanswered(c)
  BY <1>5 DEF Excused, ProbeUnanswered
<1>6. CASE Accepted(c)
  <2> DEFINE t == call[c].token
  <2>1. /\ call[c].pc = "probe" /\ grant[t][call[c].repo] # "refused"
        /\ call'[c] = Ended(call[c].repo, "read", t)
    BY <1>1, <1>6 DEF Accepted
  <2>2. t \in Tokens /\ call[c].repo \in Repos
    BY <2>1, ProbeHolds, CallType
  <2>3. call'[c].pc = "read" /\ call'[c].token = t
    BY <2>1, <2>2, EndedType DEF Ends
  <2>4. grant[t] \in [Repos -> Grants]
    BY <1>1, <2>2
  <2>5. grant[t][call[c].repo] \in {"read", "hidden", "refused"}
    BY <2>2, <2>4 DEF Grants
  <2>6. grant[t][call[c].repo] # "read"
    BY <2>3 DEF Denied
  <2> QED
    BY <2>1, <2>3, <2>5, <2>6 DEF Excused, NotFoundAccepted
<1>7. CASE RateLimited(c)
  <2>1. call[c].repo \in Repos
    BY <1>7, CallType DEF RateLimited
  <2>2. call'[c] = Ended(call[c].repo, "rate_limited", 0)
    BY <1>1, <1>7 DEF RateLimited
  <2>3. call'[c].pc = "rate_limited"
    BY <2>1, <2>2, EndedType DEF Ends
  <2> QED
    BY <2>3 DEF Excused, OutOfRequests
<1>8. CASE Return(c) \/ \E r \in Repos : Begin(c, r)
  <2>1. call'[c].pc \notin Ends
    BY <1>1, <1>8 DEF Return, Begin, Idle, Started, Ends
  <2> QED
    BY <1>1, <2>1
<1> QED
  BY <1>2, <1>3, <1>4, <1>5, <1>6, <1>7, <1>8 DEF Call

LEMMA StepExcused ==
  ASSUME Inv, [Next]_vars
  PROVE  [\A c \in Calls : Denied(c) => Excused(c)]_vars
<1> SUFFICES ASSUME Next, NEW c \in Calls, Denied(c)
             PROVE  Excused(c)
  OBVIOUS
<1>1. call'[c].pc # call[c].pc
  BY DEF Denied, Answered
<1>2. ASSUME NEW d \in Calls, Call(d)
      PROVE  d = c
  <2>1. d # c => call'[c] = call[c]
    BY <1>2 DEF Inv, TypeOK, Call, Begin, Look, Acquire, Refused, Unanswered,
                Accepted, RateLimited, Return, GoOn
  <2> QED
    BY <1>1, <2>1
<1>3. ~\E t \in Tokens, r \in Repos, g \in Grants : ChangeAccess(t, r, g)
  BY <1>1 DEF ChangeAccess
<1>4. Call(c)
  BY <1>2, <1>3 DEF Next
<1> QED
  BY <1>4, DenialExcused

\* For any number of tokens and calls: a call that one of the tokens could serve
\* is denied for the named reasons only.
THEOREM DenialsHold == Spec => OnlyKnownDenials
  BY InitInv, StepKeeps, StepExcused, PTL DEF Spec, OnlyKnownDenials

=============================================================================
