----------------------------- MODULE MagicLink -----------------------------
(***************************************************************************)
(* Magic links (src/passwordless.rs): MagicLinkToken::generate, the store  *)
(* it is saved in, redeem_magic_link, and the in-memory store's pruning,   *)
(* with concurrent redemptions of one link.  A call is split where it      *)
(* awaits the store.  The store may delete a claimed record or mark it     *)
(* used, and may report an error whether or not an operation took effect.  *)
(* Or the application keeps the records itself: it loads one, calls        *)
(* MagicLinkToken::consume on it and persists it before it completes the   *)
(* login, with the record to itself from load to persist.                  *)
(*                                                                         *)
(* A token stands for the plaintext and its hash: a store's lookups are    *)
(* exact, so only a record the application found otherwise may mismatch.   *)
(***************************************************************************)
EXTENDS Integers

CONSTANTS
    Tokens,  \* random tokens generate may draw
    Calls,   \* concurrent callers
    None,
    Ttl,     \* lifetime of a link, in ticks
    MaxTime  \* bound on the clock

ASSUME MagicLinkAssumption ==
    /\ Ttl \in Nat
    /\ MaxTime \in Nat
    /\ None \notin Nat
    /\ None \notin Tokens

VARIABLES
    now,
    keeper,     \* who keeps the records: a store that deletes or marks what it
                \* claims, or the calling application
    records,    \* the store's record of each token, if any
    expires,    \* expires_at of each token's record, None before generate
    call,       \* what each caller is running
    dropped,    \* history: tokens a claim took although the store reported an error
    delivered,  \* history: tokens mailed, their save having succeeded
    uses        \* history: how often each token was redeemed

vars == <<now, keeper, records, expires, call, delivered, dropped, uses>>

\* A record is kept as its used flag; its expiry, fixed by generate, is apart.
Records == {"absent", "unused", "used"}
Keepers == {"deleting", "marking", "caller"}
Steps == {"idle", "save", "claim", "consume", "persist"}
CallState == [pc : Steps, token : Tokens \cup {None}, record : Records]
Idle == [pc |-> "idle", token |-> None, record |-> "absent"]

Init ==
    /\ now = 0
    /\ keeper \in Keepers
    /\ records = [t \in Tokens |-> "absent"]
    /\ expires = [t \in Tokens |-> None]
    /\ call = [c \in Calls |-> Idle]
    /\ delivered = {}
    /\ dropped = {}
    /\ uses = [t \in Tokens |-> 0]

-----------------------------------------------------------------------------
\* MagicLinkToken::generate draws a fresh token; the caller then saves it.
ExpiryInThePast == now - Ttl
Expiry == now + Ttl

Generate(c) ==
    /\ call[c] = Idle
    /\ \E t \in Tokens :
          /\ expires[t] = None
          /\ expires' = [expires EXCEPT ![t] = Expiry]
          /\ call' = [call EXCEPT ![c] = [pc |-> "save", token |-> t, record |-> "unused"]]
    /\ UNCHANGED <<now, keeper, records, delivered, dropped, uses>>

\* MagicLinkStore::save inserts or overwrites.  The link is mailed once the save
\* succeeded; after an error the caller tries again or gives up.
Insert(t, r) == records' = [records EXCEPT ![t] = r]

Save(c) ==
    LET t == call[c].token IN
    /\ call[c].pc = "save"
    /\ \/ /\ Insert(t, "unused")
          /\ delivered' = delivered \cup {t}
          /\ call' = [call EXCEPT ![c] = Idle]
       \/ /\ Insert(t, "unused") \/ UNCHANGED records
          /\ call' = call \/ call' = [call EXCEPT ![c] = Idle]
          /\ UNCHANGED delivered
    /\ UNCHANGED <<now, keeper, expires, dropped, uses>>

\* Somebody presents a mailed token, or (None) a string that was never issued.
BeginRedeem(c) ==
    /\ call[c] = Idle
    /\ \E t \in delivered \cup {None} :
          /\ call' = [call EXCEPT ![c] = [pc |-> "claim", token |-> t, record |-> "absent"]]
    /\ UNCHANGED <<now, keeper, records, expires, delivered, dropped, uses>>

\* MagicLinkStore::consume: one atomic claim, after which no later claim returns
\* the record unused.  The call goes on with the record as it was.
Present(t) == t # None /\ records[t] # "absent"

ClaimForgetful(t) == UNCHANGED records
Claimed(t) ==
    records' = [records EXCEPT ![t] = IF keeper = "marking" THEN "used" ELSE "absent"]

Claim(c) ==
    LET t == call[c].token IN
    /\ call[c].pc = "claim"
    /\ keeper # "caller"
    /\ \/ /\ ~Present(t)
          /\ call' = [call EXCEPT ![c] = Idle]
          /\ UNCHANGED <<records, dropped>>
       \/ /\ Present(t)
          /\ Claimed(t)
          /\ call' = [call EXCEPT ![c] =
                           [pc |-> "consume", token |-> t, record |-> records[t]]]
          /\ UNCHANGED dropped
       \/ /\ Present(t)
          /\ Claimed(t)
          /\ call' = [call EXCEPT ![c] = Idle]
          /\ dropped' = dropped \cup {t}
       \/ /\ call' = [call EXCEPT ![c] = Idle]
          /\ UNCHANGED <<records, dropped>>
    /\ UNCHANGED <<now, keeper, expires, delivered, uses>>

\* The application loads a record it keeps, which no other call has in hand.
Free(t) == \A d \in Calls : call[d].token = t => call[d].pc \notin {"consume", "persist"}

Load(c) ==
    LET t == call[c].token IN
    /\ call[c].pc = "claim"
    /\ keeper = "caller"
    /\ \/ /\ Present(t)
          /\ Free(t)
          /\ call' = [call EXCEPT ![c] =
                           [pc |-> "consume", token |-> t, record |-> records[t]]]
       \/ call' = [call EXCEPT ![c] = Idle]
    /\ UNCHANGED <<now, keeper, records, expires, delivered, dropped, uses>>

\* MagicLinkToken::consume on the record in hand: the candidate matches,
\* is_usable, and used is set.  redeem_magic_link then returns it, redeemed; an
\* application that keeps the record has yet to persist it.
IsUsable(c) == call[c].record = "unused" /\ now <= expires[call[c].token]

Consume(c) ==
    LET t == call[c].token IN
    /\ call[c].pc = "consume"
    /\ \/ /\ IsUsable(c)
          /\ keeper # "caller"
          /\ uses' = [uses EXCEPT ![t] = @ + 1]
          /\ call' = [call EXCEPT ![c] = Idle]
       \/ /\ IsUsable(c)
          /\ keeper = "caller"
          /\ call' = [call EXCEPT ![c] = [pc |-> "persist", token |-> t, record |-> "used"]]
          /\ UNCHANGED uses
       \/ /\ ~IsUsable(c) \/ keeper = "caller"  \* refused, or not the candidate
          /\ call' = [call EXCEPT ![c] = Idle]
          /\ UNCHANGED uses
    /\ UNCHANGED <<now, keeper, records, expires, delivered, dropped>>

\* The application persists the used record and then completes the login, or
\* refuses it after an error, whether or not the record was written.
Persist(c) ==
    LET t == call[c].token IN
    /\ call[c].pc = "persist"
    /\ \/ /\ Insert(t, call[c].record)
          /\ uses' = [uses EXCEPT ![t] = @ + 1]
          /\ UNCHANGED dropped
       \/ /\ Insert(t, call[c].record)
          /\ dropped' = dropped \cup {t}
          /\ UNCHANGED uses
       \/ UNCHANGED <<records, dropped, uses>>
    /\ call' = [call EXCEPT ![c] = Idle]
    /\ UNCHANGED <<now, keeper, expires, delivered>>

\* InMemoryMagicLinkStore::prune_expired.
KeepsStrictly(t) == expires[t] > now
Keeps(t) == expires[t] >= now

PruneExpired ==
    /\ keeper # "caller"
    /\ \E t \in Tokens : records[t] # "absent" /\ ~Keeps(t)
    /\ records' = [t \in Tokens |->
                     IF records[t] # "absent" /\ ~Keeps(t) THEN "absent" ELSE records[t]]
    /\ UNCHANGED <<now, keeper, expires, call, delivered, dropped, uses>>

Tick ==
    /\ now < MaxTime
    /\ now' = now + 1
    /\ UNCHANGED <<keeper, records, expires, call, delivered, dropped, uses>>

Next ==
    \/ \E c \in Calls : Generate(c)
    \/ \E c \in Calls : Save(c)
    \/ \E c \in Calls : BeginRedeem(c)
    \/ \E c \in Calls : Claim(c)
    \/ \E c \in Calls : Load(c)
    \/ \E c \in Calls : Consume(c)
    \/ \E c \in Calls : Persist(c)
    \/ PruneExpired
    \/ Tick

Spec == Init /\ [][Next]_vars

-----------------------------------------------------------------------------
\* Every variable has the shape the code gives it.
TypeOK ==
    /\ now \in Nat
    /\ keeper \in Keepers
    /\ records \in [Tokens -> Records]
    /\ expires \in [Tokens -> Nat \cup {None}]
    /\ call \in [Calls -> CallState]
    /\ delivered \subseteq Tokens
    /\ dropped \subseteq Tokens
    /\ uses \in [Tokens -> Nat]

\* A call has the token's record in hand, unused, and has not yet decided; or it
\* decided for the login and has yet to persist the record.
Decides(c, t) == call[c].pc = "consume" /\ call[c].token = t /\ call[c].record = "unused"
Decided(c, t) == call[c].pc = "persist" /\ call[c].token = t
Holds(c, t) == Decides(c, t) \/ Decided(c, t)
Held(t) == \E c \in Calls : Holds(c, t)

\* A link that was mailed and can no longer be redeemed: its claim failed.
Lost(t) == t \in delivered /\ records[t] # "unused" /\ ~Held(t)

Expired(t) == expires[t] # None /\ now > expires[t]

\* Out of time, and no call decided for it in time.
TooLate(t) == Expired(t) /\ ~\E c \in Calls : Decided(c, t)

\* redeem_magic_link, and MagicLinkToken::consume on a record that is locked,
\* implement OneTime: a link logs in at most once, whichever redemptions race and
\* whichever store operations fail, never when it is decided after its expiry, and
\* never after a claim of it failed.
Promise == INSTANCE OneTime WITH
    Credentials <- Tokens,
    void <- {t \in Tokens : uses[t] = 0 /\ (TooLate(t) \/ Lost(t))}

ImplementsOneTime == Promise!Spec

\* A mailed link that is still in time can be redeemed, is being redeemed, was
\* redeemed, or was taken by a claim or a write that was answered with an error:
\* neither pruning nor a losing or repeated redemption costs the user a valid link.
ValidLinksSurvive ==
    \A t \in delivered :
        ~Expired(t) =>
            records[t] = "unused" \/ Held(t) \/ uses[t] = 1 \/ t \in dropped
=============================================================================
