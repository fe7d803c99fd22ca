----------------------------- MODULE IndexFabric -----------------------------
(***************************************************************************)
(* The six in-memory indexes behind getProgramAccounts and the manager     *)
(* that keeps them up to date (synapse-hyperplane/src/index_manager.rs,    *)
(* index-fabric/src/*_index.rs).                                           *)
(*                                                                         *)
(* Every index has a lock of its own and a pubkey dictionary of its own;   *)
(* update_account and remove_account take the locks one after the other,   *)
(* so a call is a sequence of critical sections, each of which is one      *)
(* action here.  An account's data is abstracted to what the indexes read  *)
(* of it: its length, its first 8 and first 32 bytes and bytes 32 to 63.   *)
(* The memcmp index only ever holds the offset 0, so that its key is the   *)
(* slice alone; slices of different lengths are different values.          *)
(***************************************************************************)
EXTENDS Integers, Sequences, FiniteSets, Maps

CONSTANTS Accounts,      \* the pubkeys of the accounts
          Contents,      \* what an account can hold
          TokenProgram,  \* TOKEN_PROGRAM_ID
          Callers,       \* the threads that call the index manager
          Enabled,       \* the indexes that IndexManagerConfig enables
          None,          \* no value
          MaxCalls       \* bound: number of calls to the manager

Kinds == {"program", "token_owner", "token_mint", "data_size", "memcmp",
          "discriminator"}

\* The indexes that remove_account takes an account out of.
Removable == {"program", "token_owner", "token_mint", "data_size"}

ASSUME FabricAssumption ==
    /\ Enabled \subseteq Kinds
    /\ MaxCalls \in Nat
    /\ None \notin Contents

VARIABLES bitmaps,   \* per index: key -> set of pubkey_ids
          reverse,   \* per index: account -> the key it was last added under
          dict,      \* per index: account -> pubkey_id
          next_id,   \* per index: next_pubkey_id
          total,     \* per index: total_accounts
          manager,   \* IndexManagerState
          call,      \* per caller: the call in progress
          calls,     \* number of calls begun
          latest,    \* history: the content of each account, None if removed
          past,      \* history: all contents each account was updated to
          raced      \* history: accounts two calls worked on at a time

indexes == <<bitmaps, reverse, dict, next_id, total>>
fabricVars == <<bitmaps, reverse, dict, next_id, total, manager, call, calls,
                latest, past, raced>>

(***************************************************************************)
(* The entries update_account makes for a content, in the order in which   *)
(* it makes them.                                                          *)
(***************************************************************************)
Entry(k, key) == [index |-> k, key |-> key]

IsToken(c) == c.owner = TokenProgram /\ c.len >= 72

\* `if let Some(ref idx)` around one call of an index.
EntryIf(applies, k, key) ==
    IF applies /\ k \in Enabled THEN <<Entry(k, key)>> ELSE <<>>

Entries(c) ==
    EntryIf(TRUE, "program", c.owner)
    \o EntryIf(IsToken(c), "token_owner", c.holder)
    \o EntryIf(IsToken(c), "token_mint", c.first32)
    \o EntryIf(TRUE, "data_size", c.len)
    \o EntryIf(c.len >= 8, "memcmp", c.first8)
    \o EntryIf(c.len >= 32, "memcmp", c.first32)
    \o EntryIf(c.len >= 8, "discriminator", c.first8)

\* The indexes remove_account visits, in order.
Removals ==
    EntryIf(TRUE, "program", None) \o EntryIf(TRUE, "token_owner", None)
    \o EntryIf(TRUE, "token_mint", None) \o EntryIf(TRUE, "data_size", None)

\* The keys under which an account with content c belongs in index k.
KeysOf(k, c) ==
    LET es == Entries(c)
    IN  {es[i].key : i \in {j \in DOMAIN es : es[j].index = k}}

Idle == [op |-> "idle", account |-> None, todo |-> <<>>]

Working(a) == {t \in Callers : call[t].op # "idle" /\ call[t].account = a}

FabricInit ==
    /\ bitmaps = [k \in Kinds |-> EmptyMap]
    /\ reverse = [k \in Kinds |-> EmptyMap]
    /\ dict = [k \in Kinds |-> EmptyMap]
    /\ next_id = [k \in Kinds |-> 0]
    /\ total = [k \in Kinds |-> 0]
    /\ manager = [total_updates |-> 0, total_indexed |-> 0]
    /\ call = [t \in Callers |-> Idle]
    /\ calls = 0
    /\ latest = [a \in Accounts |-> None]
    /\ past = [a \in Accounts |-> {}]
    /\ raced = {}

-----------------------------------------------------------------------------
(***************************************************************************)
(* One critical section of one index.                                      *)
(***************************************************************************)

\* Mutant of IdFor: the counter is read one too low.
IdForLast(k, a) ==
    IF a \in DOMAIN dict[k] THEN dict[k][a]
    ELSE IF next_id[k] = 0 THEN 0 ELSE next_id[k] - 1

\* The pubkey_id of account a in index k, or the one it is about to get.
IdFor(k, a) == IF a \in DOMAIN dict[k] THEN dict[k][a] ELSE next_id[k]

\* A PubkeyBitmap is the set of the pubkey_ids in it.
BitmapInsert(b, id) == b \cup {id}
BitmapRemove(b, id) == b \ {id}

Bitmap(k, key) == IF key \in DOMAIN bitmaps[k] THEN bitmaps[k][key] ELSE {}

\* Mutant of AddAccount: an account the dictionary knows is taken to be in
\* the bitmap already.
AddOnlyNew(k, a, key) ==
    LET id == IdFor(k, a) IN
    /\ dict' = [dict EXCEPT ![k] = Put(@, a, id)]
    /\ next_id' = [next_id EXCEPT ![k] =
                      IF a \in DOMAIN dict[k] THEN @ ELSE @ + 1]
    /\ bitmaps' = [bitmaps EXCEPT ![k] =
                      IF a \in DOMAIN dict[k] THEN @
                      ELSE Put(@, key, BitmapInsert(Bitmap(k, key), id))]
    /\ reverse' = [reverse EXCEPT ![k] = Put(@, a, key)]
    /\ total' = [total EXCEPT ![k] = @ + 1]

\* add_account(): the bitmap of a key the account was under before stays as
\* it is, and total_accounts counts the account again.
AddAccount(k, a, key) ==
    LET id == IdFor(k, a) IN
    /\ dict' = [dict EXCEPT ![k] = Put(@, a, id)]
    /\ next_id' = [next_id EXCEPT ![k] =
                      IF a \in DOMAIN dict[k] THEN @ ELSE @ + 1]
    /\ bitmaps' = [bitmaps EXCEPT ![k] = Put(@, key, BitmapInsert(Bitmap(k, key), id))]
    /\ reverse' = [reverse EXCEPT ![k] = Put(@, a, key)]
    /\ total' = [total EXCEPT ![k] = @ + 1]

\* The other indexes repeat that code with keys of their own.  The memcmp
\* index keeps no reverse map that anything reads.
AddTokenOwner(a, owner) == AddAccount("token_owner", a, owner)
AddTokenMint(a, mint) == AddAccount("token_mint", a, mint)
AddDataSize(a, size) == AddAccount("data_size", a, size)
AddDiscriminator(a, disc) == AddAccount("discriminator", a, disc)

AddMemcmp(a, bytes) ==
    LET id == IdFor("memcmp", a) IN
    /\ dict' = [dict EXCEPT !["memcmp"] = Put(@, a, id)]
    /\ next_id' = [next_id EXCEPT !["memcmp"] =
                      IF a \in DOMAIN dict["memcmp"] THEN @ ELSE @ + 1]
    /\ bitmaps' = [bitmaps EXCEPT !["memcmp"] =
                      Put(@, bytes, BitmapInsert(Bitmap("memcmp", bytes), id))]
    /\ total' = [total EXCEPT !["memcmp"] = @ + 1]
    /\ UNCHANGED reverse

AddTo(k, a, key) ==
    \/ k = "program" /\ AddAccount("program", a, key)
    \/ k = "token_owner" /\ AddTokenOwner(a, key)
    \/ k = "token_mint" /\ AddTokenMint(a, key)
    \/ k = "data_size" /\ AddDataSize(a, key)
    \/ k = "memcmp" /\ AddMemcmp(a, key)
    \/ k = "discriminator" /\ AddDiscriminator(a, key)

\* Mutant of RemoveAccount: the account stays in the bitmap.
RemoveKeepsBit(k, a) ==
    /\ reverse' = [reverse EXCEPT ![k] = Drop(@, a)]
    /\ UNCHANGED <<bitmaps, total, dict, next_id>>

\* remove_account(): the account leaves the bitmap of the key it was last
\* added under, and no other; its pubkey_id stays reserved.
RemoveAccount(k, a) ==
    IF a \in DOMAIN reverse[k]
      THEN LET key == reverse[k][a] IN
           /\ bitmaps' = [bitmaps EXCEPT ![k][key] = BitmapRemove(@, dict[k][a])]
           /\ reverse' = [reverse EXCEPT ![k] = Drop(@, a)]
           /\ total' = [total EXCEPT ![k] = IF @ > 0 THEN @ - 1 ELSE 0]
           /\ UNCHANGED <<dict, next_id>>
      ELSE UNCHANGED indexes

RemoveTokenOwner(a) == RemoveAccount("token_owner", a)
RemoveTokenMint(a) == RemoveAccount("token_mint", a)
RemoveDataSize(a) == RemoveAccount("data_size", a)

RemoveFrom(k, a) ==
    \/ k = "program" /\ RemoveAccount("program", a)
    \/ k = "token_owner" /\ RemoveTokenOwner(a)
    \/ k = "token_mint" /\ RemoveTokenMint(a)
    \/ k = "data_size" /\ RemoveDataSize(a)

\* The accounts under a key; None if no account was ever added under it.
GetAccounts(k, key) ==
    IF key \in DOMAIN bitmaps[k]
      THEN {a \in DOMAIN dict[k] : dict[k][a] \in bitmaps[k][key]}
      ELSE None

GetAccountsBySize(size) == GetAccounts("data_size", size)
GetAccountsByMemcmp(bytes) == GetAccounts("memcmp", bytes)
GetAccountsByDiscriminator(disc) == GetAccounts("discriminator", disc)

-----------------------------------------------------------------------------
(***************************************************************************)
(* The manager's calls.                                                    *)
(***************************************************************************)

\* A caller t starts a call that works on account a.
Start(t, op, a, todo) ==
    /\ call[t] = Idle /\ calls < MaxCalls
    /\ call' = [call EXCEPT ![t] = [op |-> op, account |-> a, todo |-> todo]]
    /\ calls' = calls + 1
    /\ raced' = IF Working(a) # {} THEN raced \cup {a} ELSE raced
    /\ UNCHANGED indexes

\* update_account() as far as the count of updates.
UpdateAccount(t, a, c) ==
    /\ Start(t, "update", a, Entries(c))
    /\ manager' = [manager EXCEPT !.total_updates = @ + 1]
    /\ latest' = [latest EXCEPT ![a] = c]
    /\ past' = [past EXCEPT ![a] = @ \cup {c}]

\* remove_account() before its first lock.
RemoveCall(t, a) ==
    /\ Start(t, "remove", a, Removals)
    /\ latest' = [latest EXCEPT ![a] = None]
    /\ UNCHANGED <<manager, past>>

\* The next index of t's call, under that index's lock.
IndexStep(t) ==
    /\ call[t].todo # <<>>
    /\ LET e == Head(call[t].todo) IN
         IF call[t].op = "update"
           THEN AddTo(e.index, call[t].account, e.key)
           ELSE RemoveFrom(e.index, call[t].account)
    /\ call' = [call EXCEPT ![t].todo = Tail(@)]
    /\ UNCHANGED <<manager, calls, latest, past, raced>>

\* The call returns; an update counts itself as indexed first.
Return(t) ==
    /\ call[t].op # "idle" /\ call[t].todo = <<>>
    /\ manager' = IF call[t].op = "update"
                    THEN [manager EXCEPT !.total_indexed = @ + 1]
                    ELSE manager
    /\ call' = [call EXCEPT ![t] = Idle]
    /\ UNCHANGED <<bitmaps, reverse, dict, next_id, total, calls, latest, past, raced>>

FabricNext ==
    \E t \in Callers :
        \/ \E a \in Accounts, c \in Contents : UpdateAccount(t, a, c)
        \/ \E a \in Accounts : RemoveCall(t, a)
        \/ IndexStep(t)
        \/ Return(t)

FabricSpec == FabricInit /\ [][FabricNext]_fabricVars

-----------------------------------------------------------------------------
FabricTypeOK ==
    /\ \A k \in Kinds :
         /\ \A key \in DOMAIN bitmaps[k] : bitmaps[k][key] \subseteq Nat
         /\ DOMAIN reverse[k] \subseteq Accounts
         /\ DOMAIN dict[k] \subseteq Accounts
         /\ \A a \in DOMAIN dict[k] : dict[k][a] \in Nat
    /\ next_id \in [Kinds -> Nat] /\ total \in [Kinds -> Nat]
    /\ manager \in [total_updates : Nat, total_indexed : Nat]
    /\ latest \in [Accounts -> Contents \cup {None}]
    /\ past \in [Accounts -> SUBSET Contents]
    /\ raced \in SUBSET Accounts

\* The keys of index k whose bitmap holds account a.
ListedUnder(k, a) ==
    {key \in DOMAIN bitmaps[k] :
        a \in DOMAIN dict[k] /\ dict[k][a] \in bitmaps[k][key]}

\* No call has overlapped another one on account a, and none is in progress.
Settled(a) == a \notin raced /\ Working(a) = {}

\* Within an index two accounts never share a pubkey_id and no id is above
\* the counter, whatever callers interleave: a bitmap that holds one account
\* can never be read back as another.
IdsIdentify ==
    \A k \in Kinds : \A a \in DOMAIN dict[k] :
        /\ dict[k][a] < next_id[k]
        /\ \A b \in DOMAIN dict[k] : dict[k][a] = dict[k][b] => a = b

\* What the reverse map says of an account its bitmap confirms: the account
\* is found under the key that remove_account would take it out of.
ReverseIsListed ==
    \A k \in Kinds : \A a \in DOMAIN reverse[k] :
        reverse[k][a] \in ListedUnder(k, a)

\* The inductive invariant behind the two: the ids are numbers below the counter, and
\* a removal takes nobody else out of the bitmap because no one shares the id.
FabricInv ==
    /\ DOMAIN bitmaps = Kinds /\ DOMAIN reverse = Kinds /\ DOMAIN dict = Kinds
    /\ next_id \in [Kinds -> Nat]
    /\ \A k \in Kinds : \A a \in DOMAIN dict[k] : dict[k][a] \in Nat
    /\ IdsIdentify
    /\ ReverseIsListed

\* Once the calls on an account are over and none of them overlapped, every
\* enabled index lists it under each key of its current content: removals
\* and moves in between lose nothing.
SettledIsListed ==
    \A a \in Accounts :
        Settled(a) /\ latest[a] # None =>
            \A k \in Enabled : KeysOf(k, latest[a]) \subseteq ListedUnder(k, a)

\* Index k never had a reason to list account a elsewhere: every content a was given
\* has the same keys there.
Unmoved(k, a) == \A c, d \in past[a] : KeysOf(k, c) = KeysOf(k, d)

\* An account whose keys in an index never changed, whatever else of it did, is listed
\* under no other key of that index, even while several calls work on it, and under none
\* once it has been removed from an index that supports removal (add_account() and
\* remove_account() of the indexes).  Of an account that moved to another key the code
\* promises nothing of the kind: it stays under the old one.
ListedWhereItBelongs ==
    \A a \in Accounts, k \in Kinds : Unmoved(k, a) =>
        /\ ListedUnder(k, a) # {} => past[a] # {}
        /\ \A c \in past[a] : ListedUnder(k, a) \subseteq KeysOf(k, c)
        /\ Settled(a) /\ latest[a] = None /\ k \in Removable => ListedUnder(k, a) = {}

==============================================================================
