----------------------------- MODULE TokenCache -----------------------------
(***************************************************************************)
(* Which of the configured tokens a read of GitHub uses.                   *)
(*                                                                         *)
(* Every operation of the GitHub adapter begins with repoTarget, and that  *)
(* with tokenFor: the token once found for the repository's owner, or the  *)
(* first token that a probe of the repository does not refuse.  Probes are *)
(* made under the write lock of one mutex, which all owners share; what is *)
(* found is kept for the life of the process.                              *)
(*                                                                         *)
(* GitHub answers a probe by what the token may see, or not at all: the    *)
(* probe's client has no timeout, so a probe that hangs ends with the      *)
(* context of its call, the deadline of a job's attempt.                   *)
(***************************************************************************)
EXTENDS Naturals

CONSTANTS
  Calls,      \* jobs and requests that read GitHub at the same time
  Repos,
  OwnerOf,    \* the owner of each repository
  NumTokens,  \* configured tokens, in order
  None,       \* no call, no repository
  MaxChanges  \* times that what a token may see changes (bound)

ASSUME NumTokensAssumption == NumTokens \in Nat
ASSUME MaxChangesAssumption == MaxChanges \in Nat
ASSUME NoneAssumption == None \notin Calls \cup Repos

Owners == {OwnerOf[r] : r \in Repos}
Tokens == 1..NumTokens

\* What GitHub says to a token about a repository: 200, 404, or 401 and 403.
Grants == {"read", "hidden", "refused"}

VARIABLES
  grant,    \* what each token may see
  cache,    \* tokenCache, 0 where an owner has no entry
  mu,       \* who holds mu for writing
  call,     \* the calls
  probed,   \* the repository for which an owner's token was found (history)
  found,    \* what changes was then (history)
  changes   \* changes of what a token may see, so far

vars == <<grant, cache, mu, call, probed, found, changes>>

\* How tokenFor ends.
Ends == {"read", "unauthorized", "rate_limited"}

\* token: the one that is probed, then the one to read with.
\* began: what changes was when the call took the lock; faulted: one of its
\* probes got no answer.  Both are history.
CallStates ==
  [pc : {"start", "lock", "probe"} \cup Ends, repo : Repos,
   token : Tokens \cup {0}, faulted : BOOLEAN, began : Nat]
Started(r) == [pc |-> "start", repo |-> r, token |-> 0, faulted |-> FALSE,
               began |-> 0]
Idle == [Started(None) EXCEPT !.pc = "idle"]
Ended(r, pc, t) == [Started(r) EXCEPT !.pc = pc, !.token = t]

TypeOK ==
  /\ grant \in [Tokens -> [Repos -> Grants]]
  /\ cache \in [Owners -> Tokens \cup {0}]
  /\ mu \in Calls \cup {None}
  /\ call \in [Calls -> CallStates \cup {Idle}]
  /\ probed \in [Owners -> Repos \cup {None}]
  /\ found \in [Owners -> Nat]
  /\ changes \in 0..MaxChanges

OwnerFor(c) == OwnerOf[call[c].repo]

Init ==
  /\ grant \in [Tokens -> [Repos -> Grants]]
  /\ cache = [o \in Owners |-> 0]
  /\ mu = None
  /\ call = [c \in Calls |-> Idle]
  /\ probed = [o \in Owners |-> None]
  /\ found = [o \in Owners |-> 0]
  /\ changes = 0

----------------------------------------------------------------------------
\* GitHub: a token is revoked, or given or denied access to a repository.
ChangeAccess(t, r, g) ==
  /\ changes < MaxChanges
  /\ grant[t][r] # g
  /\ changes' = changes + 1
  /\ grant' = [grant EXCEPT ![t][r] = g]
  /\ UNCHANGED <<cache, mu, call, probed, found>>

----------------------------------------------------------------------------
\* tokenFor.

\* repoTarget, for a repository whose URL is good.  No caller gives a token.
Begin(c, r) ==
  /\ call[c].pc = "idle"
  /\ call' = [call EXCEPT ![c] = Started(r)]
  /\ UNCHANGED <<grant, cache, mu, probed, found, changes>>

\* The look under the read lock, which a writer keeps out.
Look(c) ==
  LET t == cache[OwnerFor(c)]
  IN  /\ call[c].pc = "start"
      /\ mu = None
      /\ call' = [call EXCEPT ![c].pc = IF t = 0 THEN "lock" ELSE "read",
                              ![c].token = t]
      /\ UNCHANGED <<grant, cache, mu, probed, found, changes>>

\* The call goes on with token i, or fails when there is none.
GoOn(c, i, faulted) ==
  IF i \in Tokens
  THEN /\ call' = [call EXCEPT
            ![c].pc = "probe",
            ![c].token = i,
            ![c].faulted = faulted,
            ![c].began = IF call[c].pc = "lock" THEN changes ELSE @]
       /\ mu' = c
  ELSE /\ call' = [call EXCEPT ![c] = Ended(@.repo, "unauthorized", 0)]
       /\ mu' = None

\* Mutant of Acquire: the cache is not looked at again.
AcquireBlindly(c) ==
  /\ call[c].pc = "lock"
  /\ mu = None
  /\ GoOn(c, 1, FALSE)
  /\ UNCHANGED <<grant, cache, probed, found, changes>>

\* The write lock, however long it took: the call's deadline does not end the
\* wait.  Then the second look.
Acquire(c) ==
  LET t == cache[OwnerFor(c)]
  IN  /\ call[c].pc = "lock"
      /\ mu = None
      /\ IF t # 0
         THEN /\ call' = [call EXCEPT ![c] = Ended(@.repo, "read", t)]
              /\ UNCHANGED mu
         ELSE GoOn(c, 1, FALSE)
      /\ UNCHANGED <<grant, cache, probed, found, changes>>

\* Mutant of Refused: the first token that is refused ends the search.
RefusedForGood(c) ==
  /\ call[c].pc = "probe"
  /\ grant[call[c].token][call[c].repo] = "refused"
  /\ GoOn(c, NumTokens + 1, call[c].faulted)
  /\ UNCHANGED <<grant, cache, probed, found, changes>>

\* 401 or 403: the next token.
Refused(c) ==
  /\ call[c].pc = "probe"
  /\ grant[call[c].token][call[c].repo] = "refused"
  /\ GoOn(c, call[c].token + 1, call[c].faulted)
  /\ UNCHANGED <<grant, cache, probed, found, changes>>

\* No answer, because the network fails or the call's deadline has passed: the
\* next token too.
Unanswered(c) ==
  /\ call[c].pc = "probe"
  /\ GoOn(c, call[c].token + 1, TRUE)
  /\ UNCHANGED <<grant, cache, probed, found, changes>>

\* Any other answer, a 404 with it: the token is the owner's from now on.
Accepted(c) ==
  LET t == call[c].token
      o == OwnerFor(c)
  IN  /\ call[c].pc = "probe"
      /\ grant[t][call[c].repo] # "refused"
      /\ cache' = [cache EXCEPT ![o] = t]
      /\ probed' = [probed EXCEPT ![o] = call[c].repo]
      /\ found' = [found EXCEPT ![o] = changes]
      /\ call' = [call EXCEPT ![c] = Ended(@.repo, "read", t)]
      /\ mu' = None
      /\ UNCHANGED <<grant, changes>>

\* Mutant of RateLimited: the lock is released on the other returns only.
RateLimitedHolding(c) ==
  /\ call[c].pc = "probe"
  /\ call' = [call EXCEPT ![c] = Ended(@.repo, "rate_limited", 0)]
  /\ UNCHANGED <<grant, cache, mu, probed, found, changes>>

\* 403 with nothing remaining: no other token is tried.
RateLimited(c) ==
  /\ call[c].pc = "probe"
  /\ call' = [call EXCEPT ![c] = Ended(@.repo, "rate_limited", 0)]
  /\ mu' = None
  /\ UNCHANGED <<grant, cache, probed, found, changes>>

\* The caller reads with the token, or reports the error.
Return(c) ==
  /\ call[c].pc \in Ends
  /\ call' = [call EXCEPT ![c] = Idle]
  /\ UNCHANGED <<grant, cache, mu, probed, found, changes>>

----------------------------------------------------------------------------
Call(c) ==
  \/ \E r \in Repos : Begin(c, r)
  \/ Look(c) \/ Acquire(c)
  \/ Refused(c) \/ Unanswered(c) \/ Accepted(c) \/ RateLimited(c)
  \/ Return(c)

Next ==
  \/ \E t \in Tokens, r \in Repos, g \in Grants : ChangeAccess(t, r, g)
  \/ \E c \in Calls : Call(c)

\* A job's attempt has a deadline, at which a probe returns without an answer.
\* The mutex is fair: who waits for it is not passed over for ever.  Reads have
\* a client with a timeout.  Nothing makes GitHub answer.
Fairness ==
  \A c \in Calls :
    /\ SF_vars(Look(c))
    /\ SF_vars(Acquire(c))
    /\ WF_vars(Unanswered(c))
    /\ WF_vars(Return(c))

Spec == Init /\ [][Next]_vars /\ Fairness

----------------------------------------------------------------------------
\* Safety.

\* mu is held for the probes of one call and nothing else; a call probes only
\* for an owner without a token.
OneProber ==
  \A c \in Calls :
    /\ mu = c <=> call[c].pc = "probe"
    /\ call[c].pc = "probe" => call[c].token \in Tokens /\ cache[OwnerFor(c)] = 0

\* All calls for an owner read with the same token, the one in the cache: a
\* repository is never read half with one account and half with another.
OneTokenPerOwner ==
  \A c \in Calls : call[c].pc = "read" =>
    /\ call[c].token \in Tokens
    /\ call[c].token = cache[OwnerFor(c)]

\* An owner's token was found for one of its repositories.
FoundForOwner ==
  \A o \in Owners : cache[o] # 0 =>
    /\ probed[o] \in Repos
    /\ OwnerOf[probed[o]] = o
    /\ found[o] <= changes
    /\ found[o] = changes => grant[cache[o]][probed[o]] # "refused"

\* What a call has probed so far refused it, or has changed, or did not answer.
TriedInOrder ==
  \A c \in Calls : call[c].pc = "probe" =>
    /\ call[c].began <= changes
    /\ call[c].began = changes /\ ~call[c].faulted =>
         \A t \in 1..(call[c].token - 1) : grant[t][call[c].repo] = "refused"

Inv ==
  /\ TypeOK
  /\ OneProber
  /\ OneTokenPerOwner
  /\ FoundForOwner
  /\ TriedInOrder

----------------------------------------------------------------------------
\* A call is denied when its step ends tokenFor without a token that reads the
\* repository, though one of the tokens does.
Answered(c) == call[c].pc \notin Ends /\ call'[c].pc \in Ends
Denied(c) ==
  /\ Answered(c)
  /\ \E t \in Tokens : grant[t][call[c].repo] = "read"
  /\ call'[c].pc = "read" => grant[call'[c].token][call[c].repo] # "read"

\* The reasons.  Owners are not repositories: the token was found for another.
ChosenForAnother(c) ==
  LET o == OwnerFor(c) IN cache[o] # 0 /\ probed[o] # call[c].repo

\* The cache is never cleared: access changed after the token was found.
NotChosenAgain(c) ==
  LET o == OwnerFor(c) IN cache[o] # 0 /\ found[o] < changes

\* A token that may not see the repository is told that there is none.
NotFoundAccepted(c) ==
  call'[c].pc = "read" /\ grant[call'[c].token][call[c].repo] = "hidden"

\* A token was passed over because its probe got no answer.
ProbeUnanswered(c) == call[c].faulted \/ Unanswered(c)

\* Access changed between the probes of the call.
ChangedMeanwhile(c) == call[c].pc = "probe" /\ call[c].began < changes

OutOfRequests(c) == call'[c].pc = "rate_limited"

Excused(c) ==
  \/ ChosenForAnother(c)
  \/ NotChosenAgain(c)
  \/ NotFoundAccepted(c)
  \/ ProbeUnanswered(c)
  \/ ChangedMeanwhile(c)
  \/ OutOfRequests(c)

\* A call that one of the tokens could serve is denied for these reasons only
\* (tokenFor, probeToken).
OnlyKnownDenials == [][\A c \in Calls : Denied(c) => Excused(c)]_vars

\* Every call comes to an end, whatever the network does: none waits for ever
\* for the lock that another holds while it probes.
EveryCallEnds == \A c \in Calls : call[c].pc # "idle" ~> call[c].pc = "idle"

=============================================================================
