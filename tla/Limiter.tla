------------------------------- MODULE Limiter -------------------------------
(***************************************************************************)
(* limiter: a cloud function that takes the members that stand for the     *)
(* public and for service accounts out of the policies of buckets when the *)
(* costs exceed a threshold.                                               *)
(***************************************************************************)
EXTENDS Integers, Sequences, FiniteSets

CONSTANTS
    Buckets,        \* names
    BucketOrder,    \* as the environment lists them
    Cut,            \* "allUsers" and the service accounts
    Policies,       \* what the policy of a bucket may be at first
    MaxBilling      \* bound on failing calls

LimiterAssumption ==
    /\ BucketOrder \in Seq(Buckets)
    /\ \A p \in Policies : \A r \in DOMAIN p : Len(p[r]) > 0    \* an empty binding is none
    /\ MaxBilling \in Nat

VARIABLES
    policy,         \* per bucket and role the members, in order
    position,       \* the bucket of the current alert, 0 between alerts
    answered,       \* buckets whose policy an alert has set
    billingFailures

limiterVars == <<policy, position, answered, billingFailures>>

Members(p) == UNION {{p[r][i] : i \in DOMAIN p[r]} : r \in DOMAIN p}

LimiterTypeOK ==
    /\ \A b \in Buckets : \A r \in DOMAIN policy[b] : Len(policy[b][r]) > 0
    /\ position \in 0..Len(BucketOrder)
    /\ answered \subseteq Buckets
    /\ billingFailures \in 0..MaxBilling

LimiterInit ==
    /\ policy \in [Buckets -> Policies]
    /\ position = 0
    /\ answered = {}
    /\ billingFailures = 0

\* policy.Remove: the last member takes the place of the removed one.  A
\* binding's only member is removed with the binding, and its slice left as it is.
Remove(members, user) ==
    IF user \notin {members[i] : i \in DOMAIN members} THEN members
    ELSE LET last == Len(members)
             mi == CHOOSE i \in 1..last : members[i] = user /\ \A j \in 1..i - 1 : members[j] # user
         IN  SubSeq([members EXCEPT ![mi] = members[last]], 1, last - 1)

\* The loop over the members goes through the slice that Remove changes in
\* place: below `count` are the binding's members, above empty slots.
RemoveFrom(members) ==
    LET step[i \in 0..Len(members)] ==
            IF i = 0 THEN members
            ELSE IF i <= Len(step[i - 1]) /\ step[i - 1][i] \in Cut THEN Remove(step[i - 1], step[i - 1][i])
            ELSE step[i - 1]
    IN  step[Len(members)]

\* What is left of a policy: bindings without members are gone.
Removed(p) ==
    [r \in {q \in DOMAIN p : RemoveFrom(p[q]) # <<>>} |-> RemoveFrom(p[r])]

\* An alert of costs above the threshold; those below it do nothing.
CutBucketConnections ==
    /\ position = 0 /\ BucketOrder # <<>>
    /\ position' = 1
    /\ UNCHANGED <<policy, answered, billingFailures>>

\* removeUsers reads the policy of a bucket, and writes what is left of it.
RemoveUsers ==
    /\ position # 0
    /\ LET b == BucketOrder[position]
       IN  /\ policy' = [policy EXCEPT ![b] = Removed(@)]
           /\ answered' = answered \cup {b}
    /\ position' = IF position < Len(BucketOrder) THEN position + 1 ELSE 0
    /\ UNCHANGED billingFailures

\* If it cannot be read or written, the buckets that follow are left alone.
RemoveUsersFails ==
    /\ position # 0
    /\ billingFailures < MaxBilling
    /\ billingFailures' = billingFailures + 1
    /\ position' = 0
    /\ UNCHANGED <<policy, answered>>

LimiterNext == CutBucketConnections \/ RemoveUsers \/ RemoveUsersFails

ConnectionsAreCut == \A b \in answered : Members(policy[b]) \cap Cut = {}
=============================================================================
