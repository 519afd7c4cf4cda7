---------------------------- MODULE AllowedPaths ----------------------------
(***************************************************************************)
(* Which files may be ingested: the configuration is read and checked once *)
(* (Config.from_env), and every path a caller names is resolved and        *)
(* checked again (PathValidator), then its parser is looked up             *)
(* (ParserRegistry).                                                       *)
(*                                                                         *)
(* A place is a path made absolute, as written; Leads follows its links,   *)
(* and Parents are the directories a place is in.                          *)
(***************************************************************************)
EXTENDS FiniteSets

CONSTANTS
    Places,
    NoPlace,        \* no place
    Leads,          \* Leads[p]: what p is once its links are followed
    Parents,        \* Parents[p]: the directories above p
    Parsed          \* the places whose extension some parser is registered for

ASSUME PlacesAssumption ==
    /\ NoPlace \notin Places
    /\ Leads \in [Places -> Places]
    /\ \A p \in Places : Leads[Leads[p]] = Leads[p]
    /\ Parents \in [Places -> SUBSET Places]
    /\ Parsed \subseteq Places

\* What the environment says: MCP_DB_PATH and MCP_ALLOWED_DIRS.
Environment == [db : Places, dirs : SUBSET Places]

Resolve(p) == Leads[p]

StorePlace(env) == Resolve(env.db)
Allowed(env) == {Resolve(d) : d \in env.dirs}

\* p is d, or is somewhere in it.
Inside(p, d) == p = d \/ d \in Parents[p]

\* Config.from_env and PathValidator.__init__ raise for any other environment.
ConfigAccepts(env) ==
    /\ Allowed(env) # {}
    /\ \A d \in Allowed(env) : ~Inside(StorePlace(env), d)

\* Bug: the path is checked as the caller wrote it.
Candidate_AsWritten(path) == path

Candidate(path) == Resolve(path)

\* PathValidator.validate, with files the places of the files there are; then
\* ParserRegistry.resolve.
PathAccepted(env, path, files) ==
    /\ \E d \in Allowed(env) : Inside(Candidate(path), d)
    /\ Resolve(Candidate(path)) \in files
    /\ Candidate(path) \in Parsed

=============================================================================
