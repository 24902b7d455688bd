------------------------------ MODULE ProxyPool -----------------------------
(***************************************************************************)
(* Where the CF-proxy domains of CfBalancer come from: the environment of  *)
(* the start, the shared pool (built in, then fetched hourly) and the      *)
(* config file at every SIGHUP (main.rs, cf_proxy_domains.rs, config.rs).  *)
(* Sessions choose and dial throughout.                                    *)
(*                                                                         *)
(* A configuration is what matters here of an environment or a file: the   *)
(* operator's domains that are valid, whether CF_PROXY_DOMAIN or           *)
(* WRTG_CF_PROXY_DOMAINS holds anything at all, and whether                *)
(* WRTG_CFPROXY_AUTO leaves the shared pool on.  The rotation of Workers   *)
(* and the fronts, which a reload also replaces, decide nothing of the     *)
(* pool.                                                                   *)
(*                                                                         *)
(* SharesWhateverIsOwn and AfterReloadByFile are faulty variants of the    *)
(* definitions they precede.                                               *)
(***************************************************************************)
EXTENDS CfBalancer

CONSTANTS
    Defaults,      \* default_cfproxy_domains()
    Fetches,       \* bound: what the shared list may hold, normalised
    MinValid,      \* MIN_VALID_DOMAINS
    Configs        \* bound: [own : Pools, set : BOOLEAN, auto : BOOLEAN]

ASSUME PoolAssumption ==
    /\ Defaults \in Pools \ {<<>>} /\ Fetches \subseteq Pools
    /\ MinValid \in Nat \ {0}
    /\ Configs \subseteq [own : Pools, set : BOOLEAN, auto : BOOLEAN]
    /\ \A c \in Configs : c.own # <<>> => c.set

VARIABLES
    env,           \* the environment the daemon was started with
    conf,          \* the configuration last read, from it or from the file
    reload,        \* where reload_from_file() is
    live           \* the pool it found

confVars == <<env, conf, reload, live>>
poolVars == <<vars, confVars>>

PoolTypeOK ==
    /\ TypeOK
    /\ env \in Configs /\ conf \in Configs
    /\ reload \in {"never", "idle", "apply", "put"}
    /\ live \in Pools \cup {<<>>}

-----------------------------------------------------------------------------
\* cfproxy_auto_enabled(): the task and the seed ask the environment.  What
\* user_proxy_domains_configured() looks at is the raw setting, so one without a
\* valid domain in it switches the shared pool off as well.
SharesWhateverIsOwn(c) == c.auto
Shares(c) == c.auto /\ ~c.set

\* main(): the domains of the environment, or the built-in ones.
PoolInit ==
    /\ env \in Configs
    /\ conf = env /\ reload = "never" /\ live = <<>>
    /\ pool = IF Shares(env) THEN Defaults ELSE env.own
    /\ Init

\* refresh_cfproxy_domains(): a list that is too short changes nothing.
Refresh(fetched) ==
    /\ Shares(env)
    /\ Len(fetched) >= MinValid
    /\ SetPool(fetched)
    /\ UNCHANGED confVars

\* proxy_pool_after_reload().
AfterReloadByFile(c, found) == c.own
AfterReload(c, found) ==
    IF c.own # <<>> \/ ~c.auto THEN c.own
    ELSE IF found = <<>> THEN Defaults ELSE found

\* reload_from_file(): the file is read, then the pool.  The handler takes one
\* SIGHUP after the other; in between the operator may have written anything.
ReloadReads(c) ==
    /\ reload \in {"never", "idle"}
    /\ conf' = c
    /\ live' = pool
    /\ reload' = "apply"
    /\ UNCHANGED <<vars, env>>

\* apply_config().
ReloadApplies ==
    /\ reload = "apply"
    /\ SetPool(conf.own)
    /\ reload' = "put"
    /\ UNCHANGED <<env, conf, live>>

ReloadPuts ==
    /\ reload = "put"
    /\ SetPool(AfterReload(conf, live))
    /\ reload' = "idle"
    /\ live' = <<>>
    /\ UNCHANGED <<env, conf>>

PoolNext ==
    \/ \E s \in Sessions : Step(s) /\ UNCHANGED confVars
    \/ \E p \in Fetches : Refresh(p)
    \/ \E c \in Configs : ReloadReads(c)
    \/ ReloadApplies
    \/ ReloadPuts

PoolSpec == PoolInit /\ [][PoolNext]_poolVars

-----------------------------------------------------------------------------
(***************************************************************************)
(* "On SIGHUP nothing seeds, so a router with WRTG_CFPROXY_AUTO=1 and no   *)
(* CF_PROXY_DOMAIN -- the stock setup -- had its 20 fetched domains        *)
(* replaced by the file's zero" (proxy_pool_after_reload): whatever        *)
(* sequence of reloads, configurations and refreshes came before, a reload *)
(* whose file has the shared pool on leaves the router with a domain.  At  *)
(* the start that holds of an environment with nothing in CF_PROXY_DOMAIN  *)
(* only: a setting without a valid domain in it keeps the shared pool out  *)
(* and puts nothing in its place, until the first reload.                  *)
(***************************************************************************)
NeverStranded ==
    (reload = "idle" /\ conf.auto) \/ (reload = "never" /\ env.auto /\ ~env.set)
        => pool # <<>>

(***************************************************************************)
(* A router that was started without the shared pool, because something    *)
(* stands in CF_PROXY_DOMAIN or because it is switched off, and whose      *)
(* configuration has a domain of its own or leaves it off too, sends its   *)
(* sessions through the operator's domains and no others, even if in       *)
(* between the file had the shared pool on.                                *)
(***************************************************************************)
OptOutHolds ==
    (/\ reload \in {"never", "idle"}
     /\ env.set \/ ~env.auto
     /\ conf.own # <<>> \/ ~conf.auto) => pool = conf.own

(***************************************************************************)
(* README.md on CF_PROXY_DOMAIN: set it, then reload; "the shared pool     *)
(* works as long as there is no domain of one's own".  The domains a       *)
(* reload has read from the file are the pool until the next reload.       *)
(* It does not hold: the refresh task asks the environment of the start.   *)
(***************************************************************************)
OwnDomainsStand == reload = "idle" /\ conf.own # <<>> => pool = conf.own
=============================================================================
