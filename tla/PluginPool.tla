----------------------------- MODULE PluginPool -----------------------------
(***************************************************************************)
(* MCPClientPool of the Python engine (app/plugins/pool.py) with the       *)
(* plugin files, the tracker of active users (app/plugins/store.py) and    *)
(* the owners kept by the tool registry (app/tools/registry.py).           *)
(*                                                                         *)
(* The poll loop and the reload endpoint reconcile under one lock: every   *)
(* active user's configuration is loaded if its signature changed, users   *)
(* who went idle are released, connections nobody uses are closed.  A      *)
(* connection is shared by users whose server has the same fingerprint     *)
(* (command, args, env).  Tools are named after the server, one per        *)
(* server here.  Users edit their files and come and go at any time.       *)
(***************************************************************************)
EXTENDS Naturals, FiniteSets

CONSTANTS
    PluginUsers,
    Fingerprints,       \* server configurations
    NameOf,             \* the name in the user's file: two may share one
    Configs,            \* the sets of servers users configure
    Reconcilers,        \* the poll loop and reload requests
    MaxConfigEdits,     \* bound: edits of plugins.json
    MaxConnectFailures, \* bound: servers that do not start
    Nobody              \* no user: a closed connection has {Nobody} for its users

ASSUME PluginAssumption ==
    /\ MaxConfigEdits \in Nat /\ MaxConnectFailures \in Nat /\ Nobody \notin PluginUsers
    /\ DOMAIN NameOf = Fingerprints /\ Configs \subseteq SUBSET Fingerprints

VARIABLES
    files,      \* plugins.json of each user: its active servers
    activeU,    \* users with a recent request
    conns,      \* _conns: the users of an open connection, or {Nobody} when closed
    userSig,    \* _user_sigs: the loaded configuration, or {Nobody}
    userConns, userTools,
    toolDefs,   \* registry: owners and handler of a tool, no handler when absent
    recon,      \* the reconcilers
    tried,      \* history: servers tried at a user's last load
    configEdits, connectFailures

ppVars == <<files, activeU, conns, userSig, userConns, userTools, toolDefs, recon, tried, configEdits, connectFailures>>

----------------------------------------------------------------------------
ToolNames == {NameOf[f] : f \in Fingerprints}
Closed == {Nobody}
Recon == [pc: {"idle", "waiting", "users", "read", "servers", "release"}, todo: SUBSET PluginUsers,
          active: SUBSET PluginUsers, user: PluginUsers \union {Nobody},
          sig: SUBSET Fingerprints, left: SUBSET Fingerprints]
Resting == [pc |-> "idle", todo |-> {}, active |-> {}, user |-> Nobody, sig |-> {}, left |-> {}]

PluginPoolTypeOK ==
    /\ files \in [PluginUsers -> SUBSET Fingerprints] /\ tried \in [PluginUsers -> SUBSET Fingerprints]
    /\ activeU \subseteq PluginUsers
    /\ conns \in [Fingerprints -> (SUBSET PluginUsers) \union {Closed}]
    /\ userSig \in [PluginUsers -> (SUBSET Fingerprints) \union {Closed}]
    /\ userConns \in [PluginUsers -> SUBSET Fingerprints] /\ userTools \in [PluginUsers -> SUBSET ToolNames]
    /\ toolDefs \in [ToolNames -> [owners: SUBSET PluginUsers, handler: SUBSET Fingerprints]]
    /\ recon \in [Reconcilers -> Recon]
    /\ configEdits \in 0..MaxConfigEdits /\ connectFailures \in 0..MaxConnectFailures

PpInit ==
    /\ files \in [PluginUsers -> Configs] /\ tried = [u \in PluginUsers |-> {}]
    /\ activeU = {}
    /\ conns = [f \in Fingerprints |-> Closed]
    /\ userSig = [u \in PluginUsers |-> Closed]
    /\ userConns = [u \in PluginUsers |-> {}] /\ userTools = [u \in PluginUsers |-> {}]
    /\ toolDefs = [n \in ToolNames |-> [owners |-> {}, handler |-> {}]]
    /\ recon = [r \in Reconcilers |-> Resting]
    /\ configEdits = 0 /\ connectFailures = 0

poolVars == <<conns, userSig, userConns, userTools, toolDefs, tried>>

----------------------------------------------------------------------------
\* The gateway writes a user's file; requests and idle time move the tracker.
SaveConfig(u, S) ==
    /\ configEdits < MaxConfigEdits /\ configEdits' = configEdits + 1
    /\ files[u] # S /\ files' = [files EXCEPT ![u] = S]
    /\ UNCHANGED <<activeU, poolVars, recon, connectFailures>>

Touch(u) == u \notin activeU /\ activeU' = activeU \union {u}
            /\ UNCHANGED <<files, poolVars, recon, configEdits, connectFailures>>
GoesIdle(u) == /\ u \in activeU /\ configEdits < MaxConfigEdits /\ configEdits' = configEdits + 1
               /\ activeU' = activeU \ {u}
               /\ UNCHANGED <<files, poolVars, recon, connectFailures>>

LockTaken == \E r \in Reconcilers : recon[r].pc \notin {"idle", "waiting"}

\* reconcile reads the active users before it has the lock.
Reconcile(r) ==
    /\ recon[r].pc = "idle"
    /\ recon' = [recon EXCEPT ![r].pc = "waiting", ![r].active = activeU, ![r].todo = activeU]
    /\ UNCHANGED <<files, activeU, poolVars, configEdits, connectFailures>>

GetsLock(r) ==
    /\ recon[r].pc = "waiting" /\ ~LockTaken
    /\ recon' = [recon EXCEPT ![r].pc = "users"]
    /\ UNCHANGED <<files, activeU, poolVars, configEdits, connectFailures>>

\* Mutant: the connection keeps its user.
ConnsWithout_Keeps(U) == conns
\* The users of the connections after those in U are released.
ConnsWithout(U) == [f \in Fingerprints |-> IF conns[f] = Closed THEN Closed ELSE conns[f] \ U]

\* _release_user_locked for a set of users.
ToolsWithout(U) == [n \in ToolNames |->
    LET owners == toolDefs[n].owners \ {u \in U : n \in userTools[u]} IN
    IF owners = {} THEN [owners |-> {}, handler |-> {}] ELSE [toolDefs[n] EXCEPT !.owners = owners]]
Released(U) ==
    /\ conns' = ConnsWithout(U)
    /\ toolDefs' = ToolsWithout(U)
    /\ userConns' = [u \in PluginUsers |-> IF u \in U THEN {} ELSE userConns[u]]
    /\ userTools' = [u \in PluginUsers |-> IF u \in U THEN {} ELSE userTools[u]]

\* _sync_user_locked: a changed signature releases the user.  The servers are read
\* from the file once more, and the gateway may have written it in between.
SyncUser(r, u) ==
    /\ recon[r].pc = "users" /\ u \in recon[r].todo
    /\ \/ /\ files[u] = userSig[u]
          /\ recon' = [recon EXCEPT ![r].todo = @ \ {u}]
          /\ UNCHANGED poolVars
       \/ /\ files[u] # userSig[u]
          /\ Released({u})
          /\ userSig' = [userSig EXCEPT ![u] = Closed]
          /\ tried' = [tried EXCEPT ![u] = {}]
          /\ recon' = [recon EXCEPT ![r].pc = "read", ![r].user = u, ![r].sig = files[u]]
    /\ UNCHANGED <<files, activeU, configEdits, connectFailures>>

ReadServers(r) ==
    /\ recon[r].pc = "read"
    /\ recon' = [recon EXCEPT ![r].pc = "servers", ![r].left = files[recon[r].user]]
    /\ UNCHANGED <<files, activeU, poolVars, configEdits, connectFailures>>

\* One server: a new connection or the shared one, its tools registered under the
\* user, with the handler of this connection; or a failure, which is skipped.
ConnectServer(r, f) ==
    LET u == recon[r].user
        n == NameOf[f] IN
    /\ recon[r].pc = "servers" /\ f \in recon[r].left
    /\ recon' = [recon EXCEPT ![r].left = @ \ {f}]
    /\ tried' = [tried EXCEPT ![u] = @ \union {f}]
    /\ \/ /\ conns' = [conns EXCEPT ![f] = (@ \ Closed) \union {u}]
          /\ userConns' = [userConns EXCEPT ![u] = @ \union {f}]
          /\ userTools' = [userTools EXCEPT ![u] = @ \union {n}]
          /\ toolDefs' = [toolDefs EXCEPT ![n] = [owners |-> @.owners \union {u}, handler |-> {f}]]
          /\ UNCHANGED connectFailures
       \/ /\ conns[f] = Closed /\ connectFailures < MaxConnectFailures
          /\ connectFailures' = connectFailures + 1
          /\ UNCHANGED <<conns, userConns, userTools, toolDefs>>
    /\ UNCHANGED <<files, activeU, userSig, configEdits>>

\* Mutant: the signature is read again after the servers have been connected.
LoadedSig_ReadLate(r) == files[recon[r].user]
LoadedSig(r) == recon[r].sig

UserLoaded(r) ==
    /\ recon[r].pc = "servers" /\ recon[r].left = {}
    /\ userSig' = [userSig EXCEPT ![recon[r].user] = LoadedSig(r)]
    /\ recon' = [recon EXCEPT ![r].pc = "users", ![r].todo = @ \ {recon[r].user}, ![r].user = Nobody,
                              ![r].sig = {}]
    /\ UNCHANGED <<files, activeU, conns, userConns, userTools, toolDefs, tried, configEdits, connectFailures>>

\* Users that were not active at the start are released, then unused connections
\* are closed.
ReleaseIdle(r) ==
    LET gone == {u \in PluginUsers : userSig[u] # Closed /\ u \notin recon[r].active} IN
    /\ recon[r].pc = "users" /\ recon[r].todo = {}
    /\ Released(gone)
    /\ userSig' = [u \in PluginUsers |-> IF u \in gone THEN Closed ELSE userSig[u]]
    /\ recon' = [recon EXCEPT ![r].pc = "release"]
    /\ UNCHANGED <<files, activeU, tried, configEdits, connectFailures>>

Unused(f) == conns[f] = {}

CloseUnused(r) ==
    /\ recon[r].pc = "release"
    /\ conns' = [f \in Fingerprints |-> IF Unused(f) THEN Closed ELSE conns[f]]
    /\ recon' = [recon EXCEPT ![r] = Resting]
    /\ UNCHANGED <<files, activeU, userSig, userConns, userTools, toolDefs, tried, configEdits, connectFailures>>

PpNext ==
    \/ \E u \in PluginUsers :
        Touch(u) \/ GoesIdle(u) \/ \E S \in Configs : SaveConfig(u, S)
    \/ \E r \in Reconcilers :
        \/ Reconcile(r) \/ GetsLock(r) \/ ReadServers(r) \/ UserLoaded(r) \/ ReleaseIdle(r) \/ CloseUnused(r)
        \/ \E u \in PluginUsers : SyncUser(r, u)
        \/ \E f \in Fingerprints : ConnectServer(r, f)

\* The poll loop runs every 25 seconds and a reconciliation, once it has the lock, ends.
PpFairness == \A r \in Reconcilers :
    /\ WF_ppVars(Reconcile(r)) /\ SF_ppVars(GetsLock(r)) /\ WF_ppVars(ReadServers(r)) /\ WF_ppVars(UserLoaded(r))
    /\ WF_ppVars(ReleaseIdle(r)) /\ WF_ppVars(CloseUnused(r))
    /\ WF_ppVars(\E u \in PluginUsers : SyncUser(r, u))
    /\ WF_ppVars(\E f \in Fingerprints : ConnectServer(r, f))

----------------------------------------------------------------------------
\* A connection's users are exactly those who refer to it, so that it is closed
\* when the last one leaves and never under somebody who still refers to it.
ReferencesMatch == \A f \in Fingerprints :
    LET referring == {u \in PluginUsers : f \in userConns[u]} IN
    IF conns[f] = Closed THEN referring = {} ELSE conns[f] = referring

\* A tool belongs to exactly the users who loaded it, and disappears with the last.
OwnersMatch == \A n \in ToolNames :
    /\ toolDefs[n].owners = {u \in PluginUsers : n \in userTools[u]}
    /\ (toolDefs[n].owners = {}) = (toolDefs[n].handler = {})

\* The handler of a registered tool is bound to an open connection; only when users
\* configured different servers under one name may the one registered last be
\* closed under the users of the other.
HandlersAreLive == \A n \in ToolNames : \A f \in toolDefs[n].handler :
    \/ conns[f] # Closed
    \/ \E g \in Fingerprints \ {f} : NameOf[g] = n /\ conns[g] \intersect toolDefs[n].owners # {}

\* The configuration of a user who stays active is loaded again and again after it
\* changes, however the change falls into a reconciliation.
ConfigsAreLoaded == \A u \in PluginUsers :
    []<>(u \notin activeU \/ tried[u] = files[u])
=============================================================================
