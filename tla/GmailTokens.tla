----------------------------- MODULE GmailTokens -----------------------------
(***************************************************************************)
(* Access tokens for sending through Gmail (src/email/oauth2.service.ts,   *)
(* oauth2.controller.ts).                                                  *)
(*                                                                         *)
(* A grant (a refresh token) is kept in a row of oauth_credentials, of     *)
(* which one is meant to be active; the access token a grant yields is     *)
(* cached in the process.  Every call deactivates, inserts and saves rows  *)
(* in statements of its own.                                               *)
(***************************************************************************)
EXTENDS Naturals, Sequences, FiniteSets

CONSTANTS
    Grants,     \* refresh tokens that Google hands out
    EnvGrant,   \* the one in GMAIL_REFRESH_TOKEN, or Nil
    MaxRows,    \* bound of the rows that are ever inserted
    Calls,      \* calls in flight in the process
    Nil

VARIABLES
    credentials,  \* table oauth_credentials, in the order of creation
    cached,       \* cachedTokens: does it hold an unexpired token?
    calls,        \* the calls
    booted        \* has onModuleInit begun?

vars == <<credentials, cached, calls, booted>>

-----------------------------------------------------------------------------
AllGrants == Grants \cup ({EnvGrant} \ {Nil})

\* A row, as far as anything depends on it: it may lack the refresh token.
OAuthCredential == [grant: AllGrants \cup {Nil}, isActive: BOOLEAN]

\* What a call waits for.  row: the row of which it holds an active copy.
Pcs == {"idle", "refresh", "find", "save", "deactivate", "insert", "revoke"}
Resting == [pc |-> "idle", grant |-> Nil, row |-> Nil]

TypeOK ==
    /\ credentials \in Seq(OAuthCredential) /\ Len(credentials) <= MaxRows
    /\ cached \in BOOLEAN
    /\ calls \in [Calls -> [pc: Pcs, grant: AllGrants \cup {Nil},
                            row: DOMAIN credentials \cup {Nil}]]
    /\ booted \in BOOLEAN

Init ==
    /\ credentials = <<>>
    /\ cached = FALSE
    /\ calls = [c \in Calls |-> Resting]
    /\ booted = FALSE

Active == {i \in DOMAIN credentials : credentials[i].isActive}
Newest == CHOOSE i \in Active : \A j \in Active : j <= i

Waits(c, pc) == calls[c].pc = pc
Then(c, next) == calls' = [calls EXCEPT ![c] = next]
Done(c) == Then(c, Resting)

-----------------------------------------------------------------------------
(* Mutated forms of definitions below: plausible slips in the code that    *)
(* the properties must notice.  Nothing refers to them.                    *)

\* An exchange that inserts its row without deactivating the others.
NoneDeactivated == credentials

\* A copy saved with the default of its isActive column.
SaveWithDefault(i, active) == credentials' = [credentials EXCEPT ![i].isActive = TRUE]

-----------------------------------------------------------------------------
(* Steps the calls share.                                                  *)

Deactivated == [i \in DOMAIN credentials |->
                    [credentials[i] EXCEPT !.isActive = FALSE]]
Inserted(g) == Append(credentials, [grant |-> g, isActive |-> TRUE])

\* The active credential that a lookup without an order finds: any.
Stored == Active

\* save() of a copy writes every column in which it differs from the row.
SaveCopy(i, active) == credentials' = [credentials EXCEPT ![i].isActive = active]

-----------------------------------------------------------------------------
(* onModuleInit, getGmailAccessToken and refreshGmailToken.                *)

Refreshing(g) == [Resting EXCEPT !.pc = "refresh", !.grant = g]

\* The grant of a row without refresh token is the one of the environment.
GrantOr(g) == IF g = Nil THEN EnvGrant ELSE g

\* At start the newest active credential is cached, or refreshed when its
\* token has expired; without a grant that fails, and is logged.
Boot(c) ==
    /\ Waits(c, "idle") /\ ~booted
    /\ booted' = TRUE
    /\ \/ Active = {} /\ UNCHANGED <<cached, calls>>
       \/ Active # {} /\ cached' = TRUE /\ UNCHANGED calls
       \/ /\ Active # {}
          /\ LET g == GrantOr(credentials[Newest].grant)
             IN  IF g = Nil THEN UNCHANGED calls ELSE Then(c, Refreshing(g))
          /\ UNCHANGED cached
    /\ UNCHANGED credentials

\* A mail has to be sent and no token is cached: refresh with the newest
\* active credential, or with the environment's grant; without one it fails.
GetToken(c) ==
    LET g == IF Active = {} THEN EnvGrant ELSE GrantOr(credentials[Newest].grant)
    IN  /\ Waits(c, "idle") /\ ~cached /\ g # Nil
        /\ Then(c, Refreshing(g))
        /\ UNCHANGED <<credentials, cached, booted>>

\* Google answers: the token is cached, and then the row is looked up.
Refreshed(c) ==
    /\ Waits(c, "refresh")
    /\ cached' = TRUE
    /\ Then(c, [calls[c] EXCEPT !.pc = "find"])
    /\ UNCHANGED <<credentials, booted>>

\* updateStoredCredentials: an active row gets the token, else a new row.
FindStored(c) ==
    /\ Waits(c, "find")
    /\ \/ \E i \in Stored : Then(c, [Resting EXCEPT !.pc = "save", !.row = i])
       \/ Stored = {} /\ Then(c, [calls[c] EXCEPT !.pc = "deactivate"])
    /\ UNCHANGED <<credentials, cached, booted>>

SaveRefreshed(c) ==
    /\ Waits(c, "save")
    /\ SaveCopy(calls[c].row, TRUE)
    /\ Done(c)
    /\ UNCHANGED <<cached, booted>>

-----------------------------------------------------------------------------
(* exchangeCodeForTokens and saveOAuthTokens.                              *)

\* Google exchanges the code for a token, with or without a refresh token.
Exchange(c) ==
    /\ Waits(c, "idle")
    /\ \E g \in Grants \cup {Nil} :
          Then(c, [Resting EXCEPT !.pc = "deactivate", !.grant = g])
    /\ UNCHANGED <<credentials, cached, booted>>

DeactivateOthers(c) ==
    /\ Waits(c, "deactivate")
    /\ credentials' = Deactivated
    /\ Then(c, [calls[c] EXCEPT !.pc = "insert"])
    /\ UNCHANGED <<cached, booted>>

InsertNew(c) ==
    /\ Waits(c, "insert") /\ Len(credentials) < MaxRows
    /\ credentials' = Inserted(calls[c].grant)
    /\ Done(c)
    /\ UNCHANGED <<cached, booted>>

-----------------------------------------------------------------------------
(* revokeToken: the credential is deactivated whatever Google answers.     *)

Revoke(c) ==
    /\ Waits(c, "idle")
    /\ \E i \in Stored : Then(c, [Resting EXCEPT !.pc = "revoke", !.row = i])
    /\ UNCHANGED <<credentials, cached, booted>>

SaveRevoked(c) ==
    /\ Waits(c, "revoke")
    /\ SaveCopy(calls[c].row, FALSE)
    /\ cached' = FALSE
    /\ Done(c)
    /\ UNCHANGED booted

-----------------------------------------------------------------------------
\* A request to Google or a statement fails: the call ends where it is.
Fails(c) ==
    /\ ~Waits(c, "idle")
    /\ Done(c)
    /\ UNCHANGED <<credentials, cached, booted>>

\* The cached token expires.
Expire ==
    /\ cached
    /\ cached' = FALSE
    /\ UNCHANGED <<credentials, calls, booted>>

Restart ==
    /\ cached' = FALSE
    /\ calls' = [c \in Calls |-> Resting]
    /\ booted' = FALSE
    /\ UNCHANGED credentials

GetGmailAccessToken(c) ==
    GetToken(c) \/ Refreshed(c) \/ FindStored(c) \/ SaveRefreshed(c)
SaveOAuthTokens(c) == DeactivateOthers(c) \/ InsertNew(c)
RevokeToken(c) == Revoke(c) \/ SaveRevoked(c)

Next ==
    \/ \E c \in Calls :
          \/ Boot(c) \/ GetGmailAccessToken(c) \/ Exchange(c)
          \/ SaveOAuthTokens(c) \/ RevokeToken(c) \/ Fails(c)
    \/ Expire \/ Restart

Spec == Init /\ [][Next]_vars

-----------------------------------------------------------------------------
(* Properties.                                                             *)

\* However exchanges, refreshes and revocations overlap, no more credentials
\* are active at once than calls overlap: every exchange first deactivates all
\* of them, and the rows that come back are those whose copy a call held
\* (saveOAuthTokens, updateStoredCredentials).
ActiveBounded == Cardinality(Active) <= Cardinality(Calls)

\* A credential that was revoked or replaced stays so once no refresh holds
\* an active copy of it.
HeldActive(i) == \E c \in Calls : Waits(c, "save") /\ calls[c].row = i
DeactivatedStaysOff ==
    [][\A i \in DOMAIN credentials :
          ~credentials[i].isActive /\ ~HeldActive(i)
          => ~credentials'[i].isActive]_vars
=============================================================================
