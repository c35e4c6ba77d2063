--------------------------- MODULE AccountRegistry ---------------------------
(***************************************************************************)
(* What the wallet promises to goroutines that share it: a store from      *)
(* addresses to accounts that keeps the first account it is given for an   *)
(* address, for ever, and in which every call takes effect at one moment.  *)
(***************************************************************************)
CONSTANTS Caller,   \* the calls
          Account   \* the accounts: records, whose address is in sol

VARIABLES store,   \* a set of accounts
          answer   \* of each call, or <<>>

vars == <<store, answer>>

Init == store = {} /\ answer = [c \in Caller |-> <<>>]

At(addr) == {a \in store : a.sol = addr}
Address  == {a.sol : a \in Account}

Answer(c, what) == answer[c] = <<>> /\ answer' = [answer EXCEPT ![c] = what]

Keep(c, a)   == At(a.sol) = {} /\ store' = store \cup {a} /\ Answer(c, <<"kept", a>>)
Refuse(c, a) == At(a.sol) # {} /\ UNCHANGED store /\ Answer(c, <<"refused", a>>)

Find(c, addr, a) == a \in At(addr) /\ UNCHANGED store /\ Answer(c, <<"found", addr, a>>)
Miss(c, addr)    == At(addr) = {}  /\ UNCHANGED store /\ Answer(c, <<"missed", addr>>)

\* The call is given nothing, or the wrong thing, and has no effect.
Fail(c) == UNCHANGED store /\ Answer(c, <<"failed">>)

Next ==
    \E c \in Caller :
        \/ \E a \in Account : Keep(c, a) \/ Refuse(c, a)
        \/ \E addr \in Address : Miss(c, addr) \/ \E a \in store : Find(c, addr, a)
        \/ Fail(c)

Spec == Init /\ [][Next]_vars

=============================================================================
