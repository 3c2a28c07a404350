------------------------- MODULE WorldSessionRegistry -------------------------
(* The World's table of sessions (WorldSessionRegistry): a dense vector whose  *)
(* first `joined` places hold the joined players, an index from session to     *)
(* place, and the owner of every controlled entity.  The operators take a      *)
(* registry and return the registry after the call; the Try... calls come in   *)
(* two parts, the condition under which the code returns true and the effect.  *)
EXTENDS WorldTables, SequencesExt

\* WorldEntityKey{}: entity id 0 is the invalid key.
NoKey == <<0, 0>>

EmptyRegistry == [dense |-> <<>>, joined |-> 0, index |-> <<>>, owner |-> <<>>]

Registered(r) == DOMAIN r.index

SessionOf(r, s) == r.dense[r.index[s]]

\* JoinedSessions(): the joined prefix, as the set of its entries.
JoinedSessions(r) == {r.dense[i] : i \in 1 .. r.joined}

\* RegisteredSessions() that observe.
Observers(r) == {e.session : e \in {d \in ToSet(r.dense) : d.role = "Observer"}}

TryRegister(r, s) ==
  [r EXCEPT !.dense = Append(@, [session |-> s, player |-> 0, key |-> NoKey, role |-> "Connected"]),
            !.index = With(@, s, Len(r.dense) + 1)]

SwapDenseSessions(r, left, right) ==
  LET d == [r.dense EXCEPT ![left] = r.dense[right], ![right] = r.dense[left]]
  IN  IF left = right
      THEN r
      ELSE [r EXCEPT !.dense = d,
                     !.index = [@ EXCEPT ![d[left].session] = left, ![d[right].session] = right]]

\* The session is registered, not in the joined prefix and has no role yet.
Bindable(r, s) ==
  /\ s \in Registered(r)
  /\ r.index[s] > r.joined
  /\ SessionOf(r, s).role = "Connected"

CanBindPlayer(r, s, key) == Bindable(r, s) /\ key \notin DOMAIN r.owner

TryBindPlayer(r, s, player, key) ==
  LET at      == r.joined + 1
      swapped == SwapDenseSessions(r, r.index[s], at)
  IN  [dense  |-> [swapped.dense EXCEPT ![at] =
                     [session |-> s, player |-> player, key |-> key, role |-> "Player"]],
       joined |-> at,
       index  |-> swapped.index,
       owner  |-> With(swapped.owner, key, s)]

TryBindObserver(r, s) ==
  [r EXCEPT !.dense = [@ EXCEPT ![r.index[s]] = [SessionOf(r, s) EXCEPT !.role = "Observer"]]]

\* TryRebindControlledEntity for every one of the players ps, one after the
\* other in the code.  Each call touches its own session, the owner of its old
\* key and a key that nobody has had, so their order makes no difference.
RebindControlledEntities(r, ps, keys) ==
  LET back == {x \in JoinedSessions(r) : x.player \in ps}
      kept == [k \in DOMAIN r.owner \ {x.key : x \in back} |-> r.owner[k]]
      new  == [k \in {keys[x.player] : x \in back} |->
                 (CHOOSE x \in back : keys[x.player] = k).session]
  IN  [r EXCEPT !.owner = Over(new, kept),
                !.dense = [i \in DOMAIN r.dense |->
                             IF r.dense[i] \in back
                             THEN [r.dense[i] EXCEPT !.key = keys[r.dense[i].player]]
                             ELSE r.dense[i]]]

RemoveDenseSessionAt(r, i) ==
  LET moved == SwapDenseSessions(r, i, Len(r.dense))
  IN  [moved EXCEPT !.index = Without(@, r.dense[i].session),
                    !.dense = Front(@)]

\* Mutant: a joined session changes places with the last of all at once.
RemoveSessionOneSwap(r, s) ==
  LET i == r.index[s]
  IN  IF i <= r.joined
      THEN RemoveDenseSessionAt([r EXCEPT !.owner = Without(@, r.dense[i].key), !.joined = @ - 1], i)
      ELSE RemoveDenseSessionAt(r, i)

\* A joined session first changes places with the last of the joined prefix,
\* which then shrinks past it, and from there with the last of all.
RemoveSession(r, s) ==
  LET i == r.index[s]
  IN  IF i <= r.joined
      THEN LET last    == r.joined
               swapped == SwapDenseSessions([r EXCEPT !.owner = Without(@, r.dense[i].key)], i, last)
           IN  RemoveDenseSessionAt([swapped EXCEPT !.joined = last - 1], last)
      ELSE RemoveDenseSessionAt(r, i)

===============================================================================
