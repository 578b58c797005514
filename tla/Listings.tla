------------------------------ MODULE Listings ------------------------------
(***************************************************************************)
(* The calls that read a listing page by page while others add and remove  *)
(* entries, and what they return of it:                                    *)
(*                                                                         *)
(*   clients, organizations, members, roles, users   Auth0Driver           *)
(*   client    Auth0Driver.getClient: one of them                          *)
(*   sessions  KeycloakDriver.getSessions: one page per client             *)
(*   slabs     MemcacheDriver.listKeyWithValues: one page per slab         *)
(*   objects   AwsS3ServiceClient.listObjects                              *)
(*   purge     AwsS3ServiceClient.removeAllObjects                         *)
(*                                                                         *)
(* An entry is a number, which is also its place in the service's order.   *)
(***************************************************************************)
EXTENDS Naturals, FiniteSets, Sequences, SequencesExt

CONSTANTS Entries,     \* bound: the entries are 1 .. Entries
          PageSize,    \* entries of a page
          Group(_),    \* the client of a session, the slab of a key
          Limits       \* bound: the limits asked for

VARIABLES present,     \* the entries the service has
          listing,     \* "idle", "open" or "done"
          way,         \* which of the calls it is
          cap,         \* its limit
          wanted,      \* the entries its filter lets through
          place,       \* the number of the next page, or the marker before it
          groups,      \* the groups that were listed first and are to be read
          taken,       \* the entries of the list, in order
          doomed,      \* the entries of its page that purge still deletes
          last,        \* was its page the last one?
          always,      \* history: the entries present ever since the call began
          removed,     \* history: an entry was removed since
          gaveUp       \* history: an error ended the listing

lvars == <<present, listing, way, cap, wanted, place, groups, taken, doomed, last,
           always, removed, gaveUp>>

Entry   == 1 .. Entries
Pages   == {"clients", "organizations", "members", "roles", "users"}
Ways    == Pages \union {"client", "sessions", "slabs", "objects", "purge"}

\* The entries of a set in the order of the service.
Rank(x, S) == Cardinality({y \in S : y <= x})
Sort(S)    == [i \in 1 .. Cardinality(S) |-> CHOOSE x \in S : Rank(x, S) = i]

\* The first n entries of a list, and those of a page that pass a filter.
First(n, S)      == IF Len(S) > n THEN SubSeq(S, 1, n) ELSE S
Passing(S, kept) == Sort(ToSet(S) \intersect kept)
Keep(S)          == Passing(S, wanted)

Init ==
  /\ present = Entry
  /\ listing = "idle" /\ way = "clients" /\ cap = 0 /\ wanted = Entry
  /\ place = 0 /\ groups = {} /\ taken = <<>> /\ doomed = {} /\ last = FALSE
  /\ always = {} /\ removed = FALSE /\ gaveUp = FALSE

-----------------------------------------------------------------------------
\* Sessions and slabs ask first which groups have entries.
Start(w, n) ==
  /\ listing # "open"
  /\ listing' = "open" /\ way' = w /\ cap' = IF w = "client" THEN 1 ELSE n
  /\ wanted' \in CASE w \in {"sessions", "purge"} -> {Entry}
                    [] w = "client" -> {{1}, {Entries}}
                    [] OTHER -> {Entry, Entry \ {1}}
  /\ groups' = IF w \in {"sessions", "slabs"} THEN {Group(x) : x \in present} ELSE {}
  /\ place' = 0 /\ taken' = <<>> /\ doomed' = {} /\ last' = FALSE
  /\ always' = present /\ removed' = FALSE /\ gaveUp' = FALSE
  /\ UNCHANGED present

Goes(list, on) == taken' = list /\ listing' = IF on THEN "open" ELSE "done"

\* Mutant: total is taken for the number of the last entry, from zero.
Counted_FromZero(seen, all) == seen + 1 < all

\* Are there more pages?  sum < total, sum being all entries seen, kept or not.
Counted(seen, all) == seen < all

\* Auth0: the next page by number, and what the list is with it; one entry more
\* than the limit ends the listing.
Numbered(w, all, kept, list) ==
  /\ listing = "open" /\ way = w
  /\ LET page == First(PageSize, SubSeq(all, place * PageSize + 1, Len(all)))
         seen == place * PageSize + Len(page)
         grown == list \o Passing(page, kept)
     IN  Goes(First(cap, grown), Len(grown) <= cap /\ Counted(seen, Len(all)))
  /\ place' = place + 1
  /\ UNCHANGED <<present, way, cap, wanted, groups, doomed, last, always, removed, gaveUp>>

\* The driver filters what comes ...
GetClients       == Numbered("clients", Sort(present), wanted, taken)
GetOrganizations == Numbered("organizations", Sort(present), wanted, taken)
GetMembers       == Numbered("members", Sort(present), wanted, taken)

\* ... or the service does.
GetRoles == Numbered("roles", Sort(present \intersect wanted), Entry, taken)
GetUsers == Numbered("users", Sort(present \intersect wanted), Entry, taken)

\* getClient keeps the match of the page it has read last, if any.
GetClient == Numbered("client", Sort(present), wanted, <<>>)

\* Keycloak: the sessions of a client, at most max of them.
Sessions ==
  /\ listing = "open" /\ way = "sessions"
  /\ IF groups = {} THEN Goes(taken, FALSE) /\ UNCHANGED groups
     ELSE \E g \in groups :
            LET list == taken \o First(cap, Sort({x \in present : Group(x) = g})) IN
            /\ groups' = groups \ {g}
            /\ Goes(First(cap, list), Len(list) <= cap)
  /\ UNCHANGED <<present, way, cap, wanted, place, doomed, last, always, removed, gaveUp>>

\* Memcached: no more keys of a slab than are missing to the limit, and of these
\* the ones with the keyword.
Slabs ==
  /\ listing = "open" /\ way = "slabs"
  /\ IF groups = {} THEN Goes(taken, FALSE) /\ UNCHANGED groups
     ELSE \E g \in groups :
            LET keys == First(cap - Len(taken), Sort({x \in present : Group(x) = g}))
                list == taken \o Keep(keys)
            IN  /\ groups' = groups \ {g}
                /\ Goes(list, Len(list) < cap)
  /\ UNCHANGED <<present, way, cap, wanted, place, doomed, last, always, removed, gaveUp>>

\* Mutant: the entry at the marker comes again.
After_Included(m) == Sort({x \in present : x >= m})

After(m) == Sort({x \in present : x > m})

\* S3: the keys after the marker.  With a full list MaxKeys is 0; the answer has
\* no Contents, and the TypeError ends the loop.  So does any other error.
Objects ==
  /\ listing = "open" /\ way = "objects"
  /\ LET page == First(IF cap - Len(taken) < PageSize THEN cap - Len(taken) ELSE PageSize,
                       After(place))
     IN  \/ /\ page # <<>> /\ place' = page[Len(page)]
            /\ Goes(taken \o Keep(page), Len(page) < Len(After(place)))
            /\ UNCHANGED gaveUp
         \/ page = <<>> /\ Goes(taken, FALSE) /\ UNCHANGED <<place, gaveUp>>
         \/ Goes(taken, FALSE) /\ gaveUp' = TRUE /\ UNCHANGED place
  /\ UNCHANGED <<present, way, cap, wanted, groups, doomed, last, always, removed>>

\* S3: the keys of a page are deleted one by one before the next page.
PurgePage ==
  /\ listing = "open" /\ way = "purge" /\ doomed = {}
  /\ LET page == First(PageSize, After(place)) IN
     IF last \/ page = <<>> THEN Goes(taken, FALSE) /\ UNCHANGED <<doomed, place, last>>
     ELSE /\ doomed' = ToSet(page) /\ place' = page[Len(page)]
          /\ last' = (Len(page) = Len(After(place)))
          /\ Goes(taken, TRUE)
  /\ UNCHANGED <<present, way, cap, wanted, groups, always, removed, gaveUp>>

PurgeObject ==
  /\ listing = "open" /\ doomed # {}
  /\ LET x == CHOOSE y \in doomed : \A z \in doomed : y <= z IN
     /\ doomed' = doomed \ {x} /\ present' = present \ {x} /\ always' = always \ {x}
  /\ UNCHANGED <<listing, way, cap, wanted, place, groups, taken, last, removed, gaveUp>>

\* A request that fails rejects every call but listObjects.
Rejected ==
  /\ listing = "open" /\ way # "objects"
  /\ listing' = "idle"
  /\ UNCHANGED <<present, way, cap, wanted, place, groups, taken, doomed, last, always,
                 removed, gaveUp>>

\* Somebody else adds or removes an entry.
Added(x) ==
  /\ x \notin present
  /\ present' = present \union {x}
  /\ UNCHANGED <<listing, way, cap, wanted, place, groups, taken, doomed, last, always,
                 removed, gaveUp>>

Removed(x) ==
  /\ x \in present
  /\ present' = present \ {x} /\ always' = always \ {x} /\ removed' = TRUE
  /\ UNCHANGED <<listing, way, cap, wanted, place, groups, taken, doomed, last, gaveUp>>

Next ==
  \/ \E w \in Ways, n \in Limits : Start(w, n)
  \/ GetClients \/ GetOrganizations \/ GetMembers \/ GetRoles \/ GetUsers \/ GetClient
  \/ Sessions \/ Slabs \/ Objects \/ PurgePage \/ PurgeObject \/ Rejected
  \/ \E x \in Entry : Added(x) \/ Removed(x)

-----------------------------------------------------------------------------
\* The list is never longer than its limit, and when it is shorter it has every
\* matching entry that was there all the time, but: pages by number slide when
\* an entry is removed, an error of S3 is swallowed, and of a slab only as many
\* keys are looked at as are missing to the limit.
ListsAreWhole ==
  listing = "done" /\ way \notin {"purge", "client"} =>
    /\ Len(taken) <= cap
    /\ \/ Len(taken) = cap \/ gaveUp
       \/ way \in Pages /\ removed
       \/ way = "slabs" /\ wanted # Entry
       \/ always \intersect wanted \subseteq ToSet(taken)

\* getClient returns a client it was asked for; it may return none although there
\* is one only if that is not the last client, who is on the last page.
ClientIsFound ==
  listing = "done" /\ way = "client" =>
    /\ ToSet(taken) \subseteq wanted
    /\ taken = <<>> /\ ~removed => Entries \notin always \intersect wanted

\* A listing by marker or by group has no entry twice, whatever is added and
\* removed meanwhile.
MarkersNeverRepeat ==
  way \in {"objects", "sessions", "slabs"} => IsInjective(taken)

\* removeAllObjects leaves no object that was in the bucket when it began.
PurgeIsWhole == listing = "done" /\ way = "purge" => always = {}
=============================================================================
