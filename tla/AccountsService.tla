-------------------------- MODULE AccountsService --------------------------
(***************************************************************************)
(* AccountsService and its D-Bus adaptor (plugins/AccountsService): a      *)
(* cache of the properties of the current user, written through at once    *)
(* and corrected by answers and signals that come later.  Properties of    *)
(* input devices are not cached but forwarded to the system compositor.    *)
(*                                                                         *)
(* External: the daemon handles calls in order.  For a property of its own *)
(* ("builtin") it sends a bare Changed, for the others PropertiesChanged   *)
(* and then Changed, and only if the value is another.  D-Bus keeps the    *)
(* order.  Errors are left out.                                            *)
(***************************************************************************)
EXTENDS Naturals, Sequences, SequencesExt, FiniteSets

CONSTANTS
  UserNames, PropertyValues,
  Builtin, Custom, Proxied,  \* properties; each stands for an interface
  MaxInFlight                \* bound on calls and messages, when one is caused

Properties == Builtin \cup Custom \cup Proxied

ASSUME PropertiesAssumption == IsFiniteSet(Properties)

VARIABLES
  accounts,           \* user -> property -> value, in the daemon
  user,               \* m_user
  value,              \* property -> cached value; of a proxied one, what was forwarded
  known,              \* users whose signals are listened to (m_users)
  ignoreNextChanged,  \* m_ignoreNextChanged
  calls,              \* to the daemon
  messages            \* from the daemon

accountsVars == <<accounts, user, value, known, ignoreNextChanged, calls, messages>>

InFlight == Len(calls) + Len(messages)
Get(name, property) == [op |-> "Get", user |-> name, property |-> property]

\* Calls for each of the properties in S, in any order.
Gets(name, S) == [i \in 1..Cardinality(S) |-> Get(name, SetToSeq(S)[i])]

-----------------------------------------------------------------------------
\* setUser() and refresh(): one GetAll for each interface.
SetUser(name) ==
  /\ InFlight < MaxInFlight /\ name # user
  /\ user' = name
  /\ known' = known \cup {name}
  /\ calls' = calls \o Gets(name, Properties)
  /\ UNCHANGED <<accounts, value, ignoreNextChanged, messages>>

\* setProperty(), which also the setters of the class call.
SetProperty(property, x) ==
  /\ InFlight < MaxInFlight
  /\ property \notin Proxied /\ value[property] # x
  /\ value' = [value EXCEPT ![property] = x]
  /\ calls' = Append(calls, [op |-> "Set", user |-> user, property |-> property, value |-> x])
  /\ UNCHANGED <<accounts, user, known, ignoreNextChanged, messages>>

\* updateCache(), for the answer to a Get or GetAll.
UpdateCache(property, x) == value' = [value EXCEPT ![property] = x]

Reply ==
  /\ messages # <<>> /\ Head(messages).kind = "reply"
  /\ messages' = Tail(messages)
  /\ UpdateCache(Head(messages).property, Head(messages).value)
  /\ UNCHANGED <<accounts, user, known, ignoreNextChanged, calls>>

\* updateProperty() for the current user's properties S.
Updates(name, S) == calls' = IF name = user THEN calls \o Gets(name, S) ELSE calls

\* propertiesChangedSlot() and onPropertiesChanged().
PropertiesChanged ==
  /\ messages # <<>> /\ Head(messages).kind = "PropertiesChanged"
  /\ messages' = Tail(messages)
  /\ ignoreNextChanged' = TRUE
  /\ Updates(Head(messages).user, {Head(messages).property})
  /\ UNCHANGED <<accounts, user, value, known>>

StaysIgnoring == ignoreNextChanged  \* variant: the flag is not reset
IgnoresNext == FALSE

\* maybeChangedSlot() and onMaybeChanged().
MaybeChanged ==
  /\ messages # <<>> /\ Head(messages).kind = "Changed"
  /\ messages' = Tail(messages)
  /\ ignoreNextChanged' = IgnoresNext
  /\ Updates(Head(messages).user, IF ignoreNextChanged THEN {} ELSE Builtin)
  /\ UNCHANGED <<accounts, user, value, known>>

-----------------------------------------------------------------------------
\* External: the daemon.
Signals(name, property) ==
  LET signal(kind) == [kind |-> kind, user |-> name, property |-> property]
  IN  IF name \notin known THEN <<>>
      ELSE IF property \in Builtin THEN <<signal("Changed")>>
      ELSE <<signal("PropertiesChanged"), signal("Changed")>>

Changes(name, property, x) ==
  /\ accounts' = [accounts EXCEPT ![name][property] = x]
  /\ messages' = IF accounts[name][property] = x THEN messages
                 ELSE messages \o Signals(name, property)

DaemonHandles ==
  /\ calls # <<>>
  /\ calls' = Tail(calls)
  /\ LET call == Head(calls)
     IN  IF call.op = "Set" THEN Changes(call.user, call.property, call.value)
         ELSE /\ messages' = Append(messages, [kind |-> "reply", property |-> call.property,
                                               value |-> accounts[call.user][call.property]])
              /\ UNCHANGED accounts
  /\ UNCHANGED <<user, value, known, ignoreNextChanged>>

\* Another process sets a property.
OthersSet(name, property, x) ==
  /\ InFlight < MaxInFlight
  /\ x # accounts[name][property]
  /\ Changes(name, property, x)
  /\ UNCHANGED <<user, value, known, ignoreNextChanged, calls>>

\* The constructor's refresh is synchronous.
AccountsInit ==
  /\ accounts \in [UserNames -> [Properties -> PropertyValues]]
  /\ user \in UserNames
  /\ value = accounts[user]
  /\ known = {user}
  /\ ignoreNextChanged = FALSE
  /\ calls = <<>> /\ messages = <<>>

AccountsNext ==
  \/ \E name \in UserNames : SetUser(name)
  \/ \E property \in Properties, x \in PropertyValues :
       \/ SetProperty(property, x)
       \/ \E name \in UserNames : OthersSet(name, property, x)
  \/ Reply
  \/ PropertiesChanged
  \/ MaybeChanged
  \/ DaemonHandles

AccountsSpec == AccountsInit /\ [][AccountsNext]_accountsVars

-----------------------------------------------------------------------------
(***************************************************************************)
(* When nothing is on its way, each property has the value that the daemon *)
(* holds for the current user, and the compositor has been given it:       *)
(* whatever was set here and elsewhere while older answers, those for      *)
(* another user and signals that are told apart by their order only were   *)
(* outstanding (AccountsService.cpp:384, AccountsServiceDBusAdaptor.cpp:89).*)
(***************************************************************************)
CacheIsCurrent == (calls = <<>> /\ messages = <<>>) => value = accounts[user]
=============================================================================
