----------------------------- MODULE ImageTags -----------------------------
(***************************************************************************)
(* The catalogue of images of a container registry: ContainerRegistry-     *)
(* Service with its rows, and TagsLister, which reads the tags of a        *)
(* repository page by page while tags come and go.                         *)
(***************************************************************************)
EXTENDS Integers, FiniteSets, FiniteSetsExt

CONSTANTS
  TagCalls,     \* calls that track or refresh the image of one repository
  MaxTag,       \* tags are numbers in the order of the registry
  PageSize,     \* tags of a page
  MaxVisits,    \* requests of one listing
  MaxPushes     \* bound on tags that come or go

ASSUME TagsAssumption ==
  MaxTag \in Nat /\ PageSize \in Nat \ {0} /\ MaxVisits \in Nat /\ MaxPushes \in Nat

VARIABLES
  remote,     \* tags of the repository in the registry
  private,    \* the registry asks for a token
  readable,   \* parseNextLink finds an address in the links of the registry
  source,     \* the row of container_registries is there
  image,      \* rows of container_images, by the call that has made them
  tagCall,
  pushes

tagVars == <<remote, private, readable, source, image, tagCall, pushes>>

RemoteTags == 1..MaxTag
NoImage == [there |-> FALSE, tags |-> {}]

IdleTagCall ==
  [pc |-> "idle", row |-> "none", last |-> 0, got |-> {}, visited |-> 0, bearer |-> FALSE,
   always |-> {}, ever |-> {}]

TagInit ==
  /\ remote \in SUBSET RemoteTags /\ private \in BOOLEAN /\ readable \in BOOLEAN
  /\ source = TRUE
  /\ image = [c \in TagCalls |-> NoImage]
  /\ tagCall = [c \in TagCalls |-> IdleTagCall]
  /\ pushes = 0

Listing(c) == tagCall[c].pc = "list"

\* The request of a call, with the tags that it will have seen throughout.
StartListing(c, row) ==
  [tagCall EXCEPT ![c] = [IdleTagCall EXCEPT
     !.pc = "list", !.row = row, !.always = remote, !.ever = remote]]

\* CreateImage: the row is there before its tags are.
Track(c) ==
  /\ tagCall[c].pc = "idle" /\ source
  /\ image' = [image EXCEPT ![c] = [there |-> TRUE, tags |-> {}]]
  /\ tagCall' = StartListing(c, c)
  /\ UNCHANGED <<remote, private, readable, source, pushes>>

RefreshImage(c) ==
  /\ tagCall[c].pc = "idle" /\ source
  /\ \E row \in TagCalls : image[row].there /\ tagCall' = StartListing(c, row)
  /\ UNCHANGED <<remote, private, readable, source, image, pushes>>

FailListing(c) ==
  /\ tagCall' = [tagCall EXCEPT ![c] = [IdleTagCall EXCEPT !.pc = "failed"]]
  /\ UNCHANGED image

\* The registry's page after a tag, and whether resolveNextURL finds that it names
\* another one: a link that cannot be read counts as none.
Page(last) ==
  LET after == {t \in remote : t > last} IN
  {t \in after : Cardinality({u \in after : u < t}) < PageSize}
HasNext(last) == readable /\ Page(last) # {t \in remote : t > last}

\* Variant: the pages that follow replace the first one.
MergeLast(a, b) == IF b # {} THEN b ELSE a

mergeTags(a, b) == a \cup b

\* Updates of refreshImageLocked, which finds no row when the image is gone.
StoreTags(c, got) ==
  /\ tagCall' = [tagCall EXCEPT ![c] = [IdleTagCall EXCEPT
       !.pc = "done", !.got = got, !.always = tagCall[c].always, !.ever = tagCall[c].ever]]
  /\ image' = [image EXCEPT ![tagCall[c].row].tags =
                 IF image[tagCall[c].row].there THEN got ELSE @]

\* listTagsFollow: one request, without, or with the token of the first refusal.
Follow(c) ==
  LET s == tagCall[c]
      got == mergeTags(s.got, Page(s.last)) IN
  /\ Listing(c)
  /\ \/ s.visited = MaxVisits /\ FailListing(c)
     \/ /\ s.visited < MaxVisits /\ private /\ ~s.bearer
        /\ tagCall' = [tagCall EXCEPT ![c].bearer = TRUE, ![c].visited = @ + 1]
        /\ UNCHANGED image
     \/ /\ s.visited < MaxVisits /\ (private => s.bearer)
        /\ IF HasNext(s.last)
           THEN /\ tagCall' = [tagCall EXCEPT ![c].got = got, ![c].visited = @ + 1,
                                              ![c].last = Max(Page(s.last))]
                /\ UNCHANGED image
           ELSE StoreTags(c, got)
     \* The token has expired, the registry or its token server fails.
     \/ FailListing(c)
  /\ UNCHANGED <<remote, private, readable, source, pushes>>

DeleteImage(row) ==
  /\ image[row].there /\ image' = [image EXCEPT ![row] = NoImage]
  /\ UNCHANGED <<remote, private, readable, source, tagCall, pushes>>

\* The foreign key of container_images keeps a registry that has images; the
\* deletion of its images, which follows, never finds any.
DeleteRegistry ==
  /\ source /\ \A row \in TagCalls : ~image[row].there
  /\ source' = FALSE
  /\ UNCHANGED <<remote, private, readable, image, tagCall, pushes>>

\* A tag is pushed or deleted in the registry.
Push ==
  /\ pushes < MaxPushes /\ pushes' = pushes + 1
  /\ \E t \in RemoteTags :
       LET now == IF t \in remote THEN remote \ {t} ELSE remote \cup {t} IN
       /\ remote' = now
       /\ tagCall' = [c \in TagCalls |-> IF Listing(c) THEN
            [tagCall[c] EXCEPT !.always = @ \cap now, !.ever = @ \cup now] ELSE tagCall[c]]
  /\ UNCHANGED <<private, readable, source, image>>

TagNext ==
  \/ \E c \in TagCalls : Track(c) \/ RefreshImage(c) \/ Follow(c) \/ DeleteImage(c)
  \/ DeleteRegistry \/ Push

TagSpec == TagInit /\ [][TagNext]_tagVars
-----------------------------------------------------------------------------
TagTypeOK ==
  /\ remote \subseteq RemoteTags /\ source \in BOOLEAN /\ private \in BOOLEAN
  /\ readable \in BOOLEAN
  /\ \A c \in TagCalls : image[c].there \in BOOLEAN /\ image[c].tags \subseteq RemoteTags
       /\ tagCall[c].visited \in 0..MaxVisits

\* A listing that succeeds has no tag that never was in the registry, and every
\* tag that was there from its first page to its last, however tags come and go
\* between the pages and whether a token was needed or not: unless the links of
\* the registry cannot be read, which ends a listing with its first page and
\* without an error.
TagsComplete ==
  \A c \in TagCalls : tagCall[c].pc = "done" =>
    /\ readable => tagCall[c].always \subseteq tagCall[c].got
    /\ tagCall[c].got \subseteq tagCall[c].ever
=============================================================================
