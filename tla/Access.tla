------------------------------- MODULE Access -------------------------------
(***************************************************************************)
(* The components that let users in, one at a time: a behaviour is a       *)
(* behaviour of one component, chosen at the start, with the variables of  *)
(* the others at rest.  They share the clock, the choice of Redis and the  *)
(* budget of requests.                                                     *)
(***************************************************************************)
EXTENDS Integers, Sequences, FiniteSets

CONSTANTS
  Parts,            \* the components: "TF", "PK", "EC", "SI", "RN", "CO"
  Users, Workers,
  Holders,          \* the users who may have a second factor
  Ids,              \* tickets, tokens, codes, sessions, credentials and states
  CodeCount, MaxFails, LockTime, TicketTTL, JwtTTL,                  \* second factor
  SessionTTL,                                                        \* passkeys
  MaxTry, MaxSends, CodeTTL, Hour,                                   \* codes by mail
  Invites, MaxUses, StateTTL, PendingTTL, DiscoveryTTL, MinTrust,    \* sign-in
  Flows, FlowTTL,                                                    \* Codex keys
  Clock, Starts,    \* the bounds of each component's clock and requests
  None              \* nobody and nothing

\* Lifetimes and limits are those of the code or shorter; an account locks after some wrong answer.
ASSUME AccessAssumption ==
  /\ None \notin Users \cup Holders \cup Ids \cup Workers
  /\ MaxFails \in Nat \ {0} /\ LockTime \in Nat /\ TicketTTL \in Nat /\ JwtTTL \in Nat /\ SessionTTL \in Nat
  /\ {"totp", "wrong"} \cap Ids = {}
  /\ StateTTL \in Nat /\ PendingTTL \in Nat /\ DiscoveryTTL \in Nat /\ MinTrust \in Nat
  /\ Flows \subseteq Nat \ {0} /\ Starts["CO"] \in Nat

VARIABLES
  part, now, redis, starts,
  acct, tickets, jwts, blacklist, logins, hist,
  sessions, passkeys, active, ceremonies, device, pkHist,
  slot, codeInfo, sends, keys, mailing, mailHist,
  options, oauthStates, users, pending, invites, discovery, signIns, signHist,
  verdicts, records, verified, inquiries, nameHist,
  flowStore, codes, serial, codexRow, codexJobs, codexHist

tfVars == <<acct, tickets, jwts, blacklist, logins, hist>>
pkVars == <<sessions, passkeys, active, ceremonies, device, pkHist>>
ecVars == <<slot, codeInfo, sends, keys, mailing, mailHist>>
siVars == <<options, oauthStates, users, pending, invites, discovery, signIns, signHist>>
rnVars == <<verdicts, records, verified, inquiries, nameHist>>
coVars == <<flowStore, codes, serial, codexRow, codexJobs, codexHist>>
shared == <<now, redis, starts>>
vars == <<part, shared, tfVars, pkVars, ecVars, siVars, rnVars, coVars>>

TF == INSTANCE TwoFactor WITH
        Users <- Holders, Tickets <- Ids, Jwts <- Ids, Codes <- Ids, MaxClock <- Clock["TF"], MaxStarts <- Starts["TF"]
PK == INSTANCE Passkeys WITH Sessions <- Ids, Creds <- Ids, MaxClock <- Clock["PK"], MaxStarts <- Starts["PK"]
EC == INSTANCE EmailCodes WITH Codes <- Ids, MaxClock <- Clock["EC"], MaxStarts <- Starts["EC"]
SI == INSTANCE OAuthSignIn WITH
        People <- Users, States <- Ids, Pendings <- Ids, MaxClock <- Clock["SI"], MaxStarts <- Starts["SI"]
RN == INSTANCE Realname WITH MaxStarts <- Starts["RN"]
CO == INSTANCE CodexKeys WITH MaxClock <- Clock["CO"], MaxStarts <- Starts["CO"]

Init ==
  /\ part \in Parts
  /\ IF part = "TF" THEN TF!Init
     ELSE acct = None /\ tickets = None /\ jwts = None /\ blacklist = None /\ logins = None /\ hist = None
  /\ IF part = "PK" THEN PK!Init
     ELSE sessions = None /\ passkeys = None /\ active = None /\ ceremonies = None /\ device = None /\ pkHist = None
  /\ IF part = "EC" THEN EC!Init
     ELSE slot = None /\ codeInfo = None /\ sends = None /\ keys = None /\ mailing = None /\ mailHist = None
  /\ IF part = "SI" THEN SI!Init
     ELSE options = None /\ oauthStates = None /\ users = None /\ pending = None /\ invites = None /\ discovery = None /\ signIns = None /\ signHist = None
  /\ IF part = "RN" THEN RN!Init /\ now = 0 /\ redis = FALSE
     ELSE verdicts = None /\ records = None /\ verified = None /\ inquiries = None /\ nameHist = None
  /\ IF part = "CO" THEN CO!Init /\ redis = FALSE
     ELSE flowStore = None /\ codes = None /\ serial = None /\ codexRow = None /\ codexJobs = None /\ codexHist = None

Next ==
  \/ part = "TF" /\ TF!Next /\ UNCHANGED <<part, pkVars, ecVars, siVars, rnVars, coVars>>
  \/ part = "PK" /\ PK!Next /\ UNCHANGED <<part, tfVars, ecVars, siVars, rnVars, coVars>>
  \/ part = "EC" /\ EC!Next /\ UNCHANGED <<part, tfVars, pkVars, siVars, rnVars, coVars>>
  \/ part = "SI" /\ SI!Next /\ UNCHANGED <<part, tfVars, pkVars, ecVars, rnVars, coVars>>
  \/ part = "RN" /\ RN!Next /\ UNCHANGED <<part, now, redis, tfVars, pkVars, ecVars, siVars, coVars>>
  \/ part = "CO" /\ CO!Next /\ UNCHANGED <<part, redis, tfVars, pkVars, ecVars, siVars, rnVars>>
Spec == Init /\ [][Next]_vars

-----------------------------------------------------------------------------
\* Second factor and sessions: a pre-auth ticket and a backup code serve once, wrong answers lock
\* the account, and a token that logged out stays out, within TwoFactor's named exceptions.
SecondFactorInv == part = "TF" => TF!SecondFactorInv

\* Passkeys: one session, one Finish request, and the stored passkey is the one last registered,
\* within the exceptions of Passkeys.
PasskeyInv == part = "PK" => PK!PasskeyInv

\* Codes by mail: sending, guessing and using one are limited, within EmailCodes' exceptions.
MailInv == part = "EC" => EC!MailInv

\* Sign-in through a provider: a state serves once and an identity belongs to one user, within
\* the exceptions of OAuthSignIn.  At the Codex provider: the key of a channel is of the account
\* it names and of the sign-in completed last, within the exceptions of CodexKeys.
SignInInv == (part = "SI" => SI!SignInInv) /\ (part = "CO" => CO!CodexInv)

\* Real-name verification: nobody is verified without the provider's word, and the user's status
\* agrees with his rows once nothing is under way.
RealnameInv == part = "RN" => RN!RealnameInv
=============================================================================
