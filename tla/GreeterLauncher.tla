-------------------------- MODULE GreeterLauncher --------------------------
(***************************************************************************)
(* LauncherModel of the greeter session (plugins/Greeter/Lomiri/Launcher): *)
(* shows the launcher of the user who may log in, as that user's session   *)
(* has left it with AccountsService.  It asks for it when the user or the  *)
(* mode changes and when AccountsService says that it has changed, and     *)
(* answers come later, also for a user who is not the current one any      *)
(* more.                                                                   *)
(*                                                                         *)
(* External: the AccountsService daemon answers and tells in the order of  *)
(* what happens to it, and D-Bus keeps that order.                         *)
(***************************************************************************)
EXTENDS Naturals, Sequences, SequencesExt

CONSTANTS
  ShownApps, ShownUsers,
  Launchers,  \* bound: what sessions may write
  MaxCalls    \* bound: so many calls and messages are on their way

VARIABLES
  entries,     \* user -> LauncherItems in AccountsService
  shownUser,     \* m_user
  onlyPinned,    \* m_onlyPinned
  shownList,     \* m_list
  shownCalls,    \* users asked for, not handled by the daemon yet
  shownMessages  \* answers and signals on the way back

shownVars == <<entries, shownUser, onlyPinned, shownList, shownCalls, shownMessages>>

Entries == [app : ShownApps, pinned : BOOLEAN, running : BOOLEAN]

\* The launcher of a session has an application once (LauncherModel's ItemsHaveReasons).
ASSUME LaunchersAssumption ==
  \A items \in Launchers :
    /\ items \in Seq(Entries)
    /\ \A i, j \in DOMAIN items : items[i].app = items[j].app => i = j

FindShown(items, app) == SelectInSeq(items, LAMBDA item : item.app = app)

\* An item is not told apart by its pinned flag, which it always has.
ItemOf(entry) == [app |-> entry.app, running |-> entry.running]

\* An entry is skipped unless it is to be shown.
ShownWith(shown, entry) ==
  IF ~onlyPinned \/ entry.pinned THEN Append(shown, entry) ELSE shown
Shown(given) == FoldLeft(ShownWith, <<>>, given)

(***************************************************************************)
(* refreshWithItems(): drops and updates what is there, then goes through  *)
(* the entries that are not skipped, to add an item or move it.            *)
(***************************************************************************)
Updated(shown, kept, item) ==
  LET i == FindShown(shown, item.app)
  IN  IF i = 0 THEN kept ELSE Append(kept, ItemOf(shown[i]))
InPlaceOfFirst(acc, entry) ==  \* variant: the index stays that of the first entry
  LET i == FindShown(acc.items, entry.app)
      others == IF i = 0 THEN acc.items ELSE RemoveAt(acc.items, i)
  IN  [at |-> acc.at,
       items |-> InsertAt(others, acc.at, IF i = 0 THEN ItemOf(entry) ELSE acc.items[i])]
InPlace(acc, entry) ==
  LET i == FindShown(acc.items, entry.app)
  IN  [at |-> acc.at + 1,
       items |-> IF i = 0 THEN InsertAt(acc.items, acc.at, ItemOf(entry))
                 ELSE InsertAt(RemoveAt(acc.items, i), acc.at, acc.items[i])]
UpdatedItems(shown, items) == FoldLeft(LAMBDA some, item : Updated(shown, some, item), <<>>, items)
InPlaces(items, shown) == FoldLeft(InPlace, [at |-> 1, items |-> items], shown).items
RefreshWithItems(items, given) == InPlaces(UpdatedItems(Shown(given), items), Shown(given))

ShownInFlight == Len(shownCalls) + Len(shownMessages)

\* refresh() when there is a user.
Asks(name) == shownCalls' = Append(shownCalls, name)

SetShownUser(name) ==
  /\ name # shownUser /\ ShownInFlight < MaxCalls
  /\ shownUser' = name
  /\ Asks(name)
  /\ UNCHANGED <<entries, onlyPinned, shownList, shownMessages>>

SetOnlyPinned ==
  /\ ShownInFlight < MaxCalls
  /\ onlyPinned' = ~onlyPinned
  /\ Asks(shownUser)
  /\ UNCHANGED <<entries, shownUser, shownList, shownMessages>>

\* External: the daemon handles a call, or a session writes its launcher.
DaemonAnswers ==
  /\ shownCalls # <<>>
  /\ shownCalls' = Tail(shownCalls)
  /\ shownMessages' = Append(shownMessages, [kind |-> "reply", items |-> entries[Head(shownCalls)]])
  /\ UNCHANGED <<entries, shownUser, onlyPinned, shownList>>

SessionWrites(name, items) ==
  /\ ShownInFlight < MaxCalls /\ items # entries[name]
  /\ entries' = [entries EXCEPT ![name] = items]
  /\ shownMessages' = Append(shownMessages, [kind |-> "changed", user |-> name])
  /\ UNCHANGED <<shownUser, onlyPinned, shownList, shownCalls>>

LauncherReply ==
  /\ shownMessages # <<>> /\ Head(shownMessages).kind = "reply"
  /\ shownMessages' = Tail(shownMessages)
  /\ shownList' = RefreshWithItems(shownList, Head(shownMessages).items)
  /\ UNCHANGED <<entries, shownUser, onlyPinned, shownCalls>>

LauncherChanged ==
  /\ shownMessages # <<>> /\ Head(shownMessages).kind = "changed"
  /\ shownMessages' = Tail(shownMessages)
  /\ IF Head(shownMessages).user = shownUser THEN Asks(shownUser) ELSE UNCHANGED shownCalls
  /\ UNCHANGED <<entries, shownUser, onlyPinned, shownList>>

\* A user is set from the start.
ShownInit ==
  /\ entries = [name \in ShownUsers |-> <<>>]
  /\ shownUser \in ShownUsers
  /\ onlyPinned = TRUE
  /\ shownList = <<>> /\ shownCalls = <<shownUser>> /\ shownMessages = <<>>

ShownNext ==
  \/ \E name \in ShownUsers :
       SetShownUser(name) \/ \E items \in Launchers : SessionWrites(name, items)
  \/ SetOnlyPinned
  \/ DaemonAnswers
  \/ LauncherReply
  \/ LauncherChanged

ShownSpec == ShownInit /\ [][ShownNext]_shownVars

-----------------------------------------------------------------------------
(***************************************************************************)
(* When nothing is on its way, the greeter shows the launcher of its       *)
(* current user, in that user's order and in the current mode, whatever    *)
(* users, modes and launchers changed while answers were outstanding       *)
(* (launchermodelas.cpp:197, 214).                                         *)
(***************************************************************************)
GreeterShowsTheUsers ==
  (shownCalls = <<>> /\ shownMessages = <<>>) =>
     shownList = [i \in DOMAIN Shown(entries[shownUser]) |-> ItemOf(Shown(entries[shownUser])[i])]
=============================================================================
