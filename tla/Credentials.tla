----------------------------- MODULE Credentials -----------------------------
(* CredentialVault (agents/core/credential_vault.py): each process holds the
   entries in memory and rewrites vault.enc whole; the file is read once, when the
   vault is opened, and a file that cannot be read counts as an empty one. A key
   stands for its entry and its encrypted form; probing is left out but for its
   verdict (verify_all) and for the time it takes before the lock (add_key). *)
EXTENDS Naturals, FiniteSets

CONSTANTS VaultUsers,   \* processes
          VaultKeys,
          Passphrases,  \* passphrases a process may be given
          MaxOpens      \* bound on the times a vault is opened

\* Two words stand for a file that is not there and one that cannot be read.
ASSUME PassphrasesAssumption == {"", "none"} \cap Passphrases = {}

VARIABLES vtFile,    \* vault.enc: [pass, keys], pass "" when it cannot be read at all
          vtUser,    \* per process: what it does, and what it holds; "fresh"
             \* until another process saves
          vtOwed,    \* history: keys added and saved, and not removed since
          vtOpens,
          vtStale,   \* history: a process saved that was not fresh
          vtBlind    \* history: a file that was there could not be read
vtVars == <<vtFile, vtUser, vtOwed, vtOpens, vtStale, vtBlind>>

NotOpen == [at |-> "closed", pass |-> "", keys |-> {}, valid |-> {}, key |-> "", fresh |-> FALSE]
VaultInit ==
  /\ vtFile = [pass |-> "none", keys |-> {}] /\ vtUser = [u \in VaultUsers |-> NotOpen]
  /\ vtOwed = {} /\ vtOpens = 0 /\ vtStale = FALSE /\ vtBlind = FALSE

VaultAt(u) == vtUser[u].at
SetUser(u, user) == vtUser' = [vtUser EXCEPT ![u] = user]

\* CredentialVault(): _load
OpenVault(u, pass) ==
  /\ VaultAt(u) = "closed" /\ vtOpens < MaxOpens /\ vtOpens' = vtOpens + 1
  /\ LET readable == vtFile.pass = pass
         keys == IF readable THEN vtFile.keys ELSE {}
     IN /\ SetUser(u, [at |-> "open", pass |-> pass, keys |-> keys, valid |-> keys, key |-> "", fresh |-> TRUE])
        /\ vtBlind' = (vtBlind \/ (~readable /\ vtFile.pass # "none"))
  /\ UNCHANGED <<vtFile, vtOwed, vtStale>>

\* add_key probes the provider before it takes the lock; remove_key and verify_all
\* change what is in memory, then save.
AddKey(u, k) ==
  /\ VaultAt(u) = "open" /\ SetUser(u, [vtUser[u] EXCEPT !.at = "adding", !.key = k])
  /\ UNCHANGED <<vtFile, vtOwed, vtOpens, vtStale, vtBlind>>
Stores(keys, k) == keys \cup {k}
AddStores(u) ==
  LET k == vtUser[u].key IN
  /\ VaultAt(u) = "adding"
  /\ SetUser(u, [vtUser[u] EXCEPT !.at = "added", !.keys = Stores(@, k), !.valid = Stores(@, k)])
  /\ UNCHANGED <<vtFile, vtOwed, vtOpens, vtStale, vtBlind>>
RemoveKey(u, k) ==
  /\ VaultAt(u) = "open" /\ k \in vtUser[u].keys
  /\ SetUser(u, [vtUser[u] EXCEPT !.at = "removed", !.keys = @ \ {k}, !.valid = @ \ {k}])
  /\ vtOwed' = vtOwed \ {k}
  /\ UNCHANGED <<vtFile, vtOpens, vtStale, vtBlind>>
\* verify_all: only a key that cannot be decrypted becomes invalid.
Verdict(u, answers) == vtUser[u].valid \cup answers
VerifyAll(u, answers) ==
  /\ VaultAt(u) = "open" /\ answers \subseteq vtUser[u].keys
  /\ SetUser(u, [vtUser[u] EXCEPT !.at = "verified", !.valid = Verdict(u, answers)])
  /\ UNCHANGED <<vtFile, vtOwed, vtOpens, vtStale, vtBlind>>

\* _save, under the lock: the file is emptied, then written.
Saving == {"added", "removed", "verified"}
SaveBegins(u) ==
  /\ VaultAt(u) \in Saving
  /\ vtStale' = (vtStale \/ ~vtUser[u].fresh)
  /\ vtFile' = [pass |-> "", keys |-> {}]
  /\ vtUser' = [v \in VaultUsers |-> IF v # u THEN [vtUser[v] EXCEPT !.fresh = FALSE]
                   ELSE [vtUser[v] EXCEPT !.at = IF @ = "added" THEN "writing" ELSE "rewriting"]]
  /\ UNCHANGED <<vtOwed, vtOpens, vtBlind>>
SaveEnds(u) ==
  LET k == vtUser[u].key IN
  /\ VaultAt(u) \in {"writing", "rewriting"}
  /\ vtFile' = [pass |-> vtUser[u].pass, keys |-> vtUser[u].keys]
  /\ vtOwed' = IF VaultAt(u) = "writing" THEN vtOwed \cup {k} ELSE vtOwed
  /\ SetUser(u, [vtUser[u] EXCEPT !.at = "open", !.key = ""])
  /\ UNCHANGED <<vtOpens, vtStale, vtBlind>>

\* The process ends, perhaps in the middle of a save.
VaultCrash(u) ==
  /\ VaultAt(u) # "closed" /\ SetUser(u, NotOpen)
  /\ UNCHANGED <<vtFile, vtOwed, vtOpens, vtStale, vtBlind>>

VaultNext ==
  \E u \in VaultUsers :
    \/ \E pass \in Passphrases : OpenVault(u, pass)
    \/ \E k \in VaultKeys : AddKey(u, k) \/ RemoveKey(u, k)
    \/ AddStores(u) \/ SaveBegins(u) \/ SaveEnds(u) \/ VaultCrash(u)
    \/ \E answers \in SUBSET vtUser[u].keys : VerifyAll(u, answers)

VaultSpec == VaultInit /\ [][VaultNext]_vtVars

-----------------------------------------------------------------------------
\* A key that was added and not removed is in a vault.enc that can be read, except
\* after a save by a process that had not read the newest file, after an open that
\* could not read the file there was, or while the file is half written.
KeysAreKept ==
  \/ vtOwed \subseteq vtFile.keys \/ vtStale \/ vtBlind \/ vtFile.pass = ""

\* A provider that does not answer costs no key its validity: what a process holds
\* is usable until it is removed.
HeldKeysAreValid == \A u \in VaultUsers : vtUser[u].valid = vtUser[u].keys

-----------------------------------------------------------------------------
(* SpiffeRegistry (agents/core/spiffe_identity.py): identities and the SVIDs
   issued for them, their revocation, and a registry file that keeps the
   identities but neither the SVIDs nor the revoked serials. Time only expires. *)
CONSTANTS AgentNames,
          MaxSvids      \* bound on the SVIDs issued

VARIABLES idStatus,     \* per agent: "", "active", "suspended" or "revoked"
          idSvids,      \* _svids: the serials the registry lists
          idOf,         \* per serial issued so far, the agent it is for
          idExpired,    \* serials past their time
          idBundle,     \* _bundle.revoked_serials
          idFile,       \* the statuses in the file, <<>> before the first save
          idRevoked,    \* history: serials revoked, one by one or with their agent
          idForgotten   \* history: those of them revoked before some load
idVars == <<idStatus, idSvids, idOf, idExpired, idBundle, idFile, idRevoked, idForgotten>>

IdInit ==
  /\ idStatus = [a \in AgentNames |-> ""] /\ idSvids = {} /\ idOf = <<>> /\ idExpired = {}
  /\ idBundle = {} /\ idFile = <<>> /\ idRevoked = {} /\ idForgotten = {}

Issued == DOMAIN idOf
SvidsOf(a) == {s \in idSvids : idOf[s] = a}
KeptById == <<idExpired, idFile, idForgotten>>

RegisterIdentity(a) ==
  /\ idStatus[a] = "" /\ idStatus' = [idStatus EXCEPT ![a] = "active"]
  /\ UNCHANGED <<idSvids, idOf, idBundle, idRevoked, KeptById>>

\* issue_svid: only for an active identity.
NewSvid(a) ==
  LET s == Cardinality(Issued) + 1 IN
  /\ idStatus[a] = "active" /\ s <= MaxSvids
  /\ idOf' = [x \in Issued \cup {s} |-> IF x = s THEN a ELSE idOf[x]]
IssueSvid(a) ==
  /\ NewSvid(a) /\ idSvids' = idSvids \cup {Cardinality(Issued) + 1}
  /\ UNCHANGED <<idStatus, idBundle, idRevoked, KeptById>>

\* Mutant: revoking only takes the SVID off the list.
RevokedSilently(serials) == idBundle
\* revoke_svid, whether or not the registry lists it.
RevokedWith(serials) == idBundle \cup serials
RevokeSvid(s) ==
  /\ s \in Issued /\ idBundle' = RevokedWith({s}) /\ idSvids' = idSvids \ {s} /\ idRevoked' = idRevoked \cup {s}
  /\ UNCHANGED <<idStatus, idOf, KeptById>>

\* rotate_svid: the old one is revoked whether or not a new one can be issued.
RotateSvid(s) ==
  /\ s \in Issued /\ idBundle' = RevokedWith({s}) /\ idRevoked' = idRevoked \cup {s}
  /\ \/ NewSvid(idOf[s]) /\ idSvids' = (idSvids \ {s}) \cup {Cardinality(Issued) + 1}
     \/ idStatus[idOf[s]] # "active" /\ idSvids' = idSvids \ {s} /\ UNCHANGED idOf
  /\ UNCHANGED <<idStatus, KeptById>>

RevokeIdentity(a) ==
  /\ idStatus[a] # "" /\ idStatus' = [idStatus EXCEPT ![a] = "revoked"]
  /\ idBundle' = RevokedWith(SvidsOf(a)) /\ idSvids' = idSvids \ SvidsOf(a)
  /\ idRevoked' = idRevoked \cup SvidsOf(a)
  /\ UNCHANGED <<idOf, idExpired, idFile, idForgotten>>
SuspendIdentity(a) ==
  /\ idStatus[a] # "" /\ idStatus' = [idStatus EXCEPT ![a] = "suspended"]
  /\ UNCHANGED <<idSvids, idOf, idBundle, idRevoked, KeptById>>
MayReactivate(a) == idStatus[a] \notin {"", "revoked"}
ReactivateIdentity(a) ==
  /\ MayReactivate(a) /\ idStatus' = [idStatus EXCEPT ![a] = "active"]
  /\ UNCHANGED <<idSvids, idOf, idBundle, idRevoked, KeptById>>

SaveIdentities ==
  /\ idFile' = idStatus /\ UNCHANGED <<idStatus, idSvids, idOf, idExpired, idBundle, idRevoked, idForgotten>>
\* load: a new registry, with nothing issued and nothing revoked.
LoadIdentities ==
  /\ idFile # <<>> /\ idStatus' = idFile /\ idSvids' = {} /\ idBundle' = {}
  /\ idForgotten' = idRevoked
  /\ UNCHANGED <<idOf, idExpired, idFile, idRevoked>>
Expires(s) ==
  /\ s \in Issued \ idExpired /\ idExpired' = idExpired \cup {s}
  /\ UNCHANGED <<idStatus, idSvids, idOf, idBundle, idFile, idRevoked, idForgotten>>

IdNext ==
  \/ \E a \in AgentNames :
       \/ RegisterIdentity(a) \/ IssueSvid(a) \/ RevokeIdentity(a)
       \/ SuspendIdentity(a) \/ ReactivateIdentity(a)
  \/ \E s \in Issued : RevokeSvid(s) \/ RotateSvid(s) \/ Expires(s)
  \/ SaveIdentities \/ LoadIdentities

\* verify_svid
Verifies(s) == s \notin idExpired \cup idBundle /\ idStatus[idOf[s]] = "active"

IdSpec == IdInit /\ [][IdNext]_idVars
-----------------------------------------------------------------------------
\* A revoked SVID verifies again only when the registry was loaded since, from a
\* file that does not hold revocations; suspending and reactivating its identity,
\* even a revoked one, does not bring it back.
RevokedOnlyBackByLoad == \A s \in Issued : Verifies(s) /\ s \in idRevoked => s \in idForgotten

\* Credentials are kept: a key once saved is in the vault, and an SVID stays revoked,
\* until a file is read again that does not know it (CredentialVault, SpiffeRegistry).
CredentialsAreKept == KeysAreKept /\ HeldKeysAreValid /\ RevokedOnlyBackByLoad
=============================================================================
