--------------------------- MODULE PosixShmBackend ---------------------------
(***************************************************************************)
(* hshm::ipc::PosixShmMmap (posix_shm_mmap.h): one owner process runs      *)
(* shm_init on a url while attacher processes run shm_attach on it.        *)
(*                                                                         *)
(* shm_init unlinks any object left under the url (by a runtime that died  *)
(* without destroying it), creates a new one, maps it and writes the       *)
(* header: md_size_, then data_size_.  shm_attach opens the url, maps one  *)
(* page, computes total_size_ from md_size_ and data_size_, unmaps it,     *)
(* maps total_size_, and reads md_size_, data_size_ again from the mapping. *)
(* The header is plain memory with no ready flag: reads and writes of it   *)
(* by different processes are unordered.                                   *)
(*                                                                         *)
(* Sizes are in units; one page (kAlignment) is Page units.  The objects   *)
(* are "old" (left over by an earlier runtime, when OldSize > 0) and "new" *)
(* (created by this owner).                                                *)
(***************************************************************************)
EXTENDS Naturals

CONSTANTS
  Attachers,       \* processes calling shm_attach
  Sizes,           \* sizes passed to shm_init
  MinSize,         \* kMinBackendSize
  Page,            \* kAlignment
  HeaderSize,      \* sizeof(MemoryBackendHeader)
  OldSize,         \* data_size_ of a leftover object (0: none)
  MaxAttaches,     \* bound on shm_attach calls per attacher
  None

ASSUME 0 < HeaderSize /\ HeaderSize <= Page

Objs == {"old", "new"}

VARIABLES
  named,     \* the object the url names in the shm namespace, or None
  hdr,       \* each object's header fields md_size_ and data_size_
  objLen,    \* each object's length (the total_size_ it was created with)
  ownerPc,   \* "start", "map", "data" (inside shm_init), "ready", "failed"
             \* (returned false), "threw", "detached", "gone"
  size,      \* the owner's data_size_
  apc,       \* attacher: "start", "hdr", "map", "ready", "threw"
  afd,       \* attacher's fd_: the object it opened
  alocal,    \* attacher's aligned_md_size and total_size_ from the header page
  aview,     \* attacher's mapping length, data_ offset and data_size_
  attempts,  \* shm_attach calls per attacher
  ainit,     \* attacher's IsInitialized() flag
  amap       \* what the attacher's header_ points at: "none" (never
             \* mapped by it), "live" (its mapping) or "stale" (unmapped)

ownerVars  == <<named, hdr, objLen, ownerPc, size>>
attachVars == <<apc, afd, alocal, aview, attempts, ainit, amap>>
vars       == <<ownerVars, attachVars>>

\* ((md_size + kAlignment - 1) / kAlignment) * kAlignment
AlignUp(x) == ((x + Page - 1) \div Page) * Page

Init ==
  /\ named = IF OldSize > 0 THEN "old" ELSE None
  /\ hdr = [o \in Objs |-> IF o = "old" THEN [md |-> HeaderSize, data |-> OldSize]
                            ELSE [md |-> 0, data |-> 0]]
  /\ objLen = [o \in Objs |-> IF o = "old" THEN AlignUp(HeaderSize) + OldSize ELSE 0]
  /\ ownerPc = "start"
  /\ size = 0
  /\ apc = [a \in Attachers |-> "start"]
  /\ afd = [a \in Attachers |-> None]
  /\ alocal = [a \in Attachers |-> [aligned |-> 0, total |-> 0]]
  /\ aview = [a \in Attachers |-> [mapped |-> 0, dataOff |-> 0, data |-> 0]]
  /\ attempts = [a \in Attachers |-> 0]
  /\ ainit = [a \in Attachers |-> FALSE]
  /\ amap = [a \in Attachers |-> "none"]

(* ----- the owner: shm_init, shm_destroy ----- *)

\* shm_init with a size below the minimum left as it is.
ShmInitCreateNoMin ==
  /\ ownerPc = "start"
  /\ \E s \in Sizes :
       /\ size' = s
       /\ objLen' = [objLen EXCEPT !["new"] = AlignUp(HeaderSize) + s]
  /\ named' = "new"
  /\ ownerPc' = "map"
  /\ UNCHANGED <<hdr, attachVars>>

\* An object created with the data size alone, without the header pages.
ShmInitCreateDataOnly ==
  /\ ownerPc = "start"
  /\ \E s \in Sizes :
       LET sz == IF s < MinSize THEN MinSize ELSE s
       IN /\ size' = sz
          /\ objLen' = [objLen EXCEPT !["new"] = sz]
  /\ named' = "new"
  /\ ownerPc' = "map"
  /\ UNCHANGED <<hdr, attachVars>>

\* shm_init: round size up to kMinBackendSize, total_size_ =
\* aligned_md_size + size, DestroySharedMemory(url),
\* CreateNewSharedMemory(fd_, url, total_size_).
ShmInitCreate ==
  /\ ownerPc = "start"
  /\ \E s \in Sizes :
       LET sz == IF s < MinSize THEN MinSize ELSE s
       IN /\ size' = sz
          /\ objLen' = [objLen EXCEPT !["new"] = AlignUp(HeaderSize) + sz]
  /\ named' = "new"
  /\ ownerPc' = "map"
  /\ UNCHANGED <<hdr, attachVars>>

\* _ShmMap(total_size_), placement-new of the header, id_, md_size_.
ShmInitMap ==
  /\ ownerPc = "map"
  /\ hdr' = [hdr EXCEPT !["new"].md = HeaderSize]
  /\ ownerPc' = "data"
  /\ UNCHANGED <<named, objLen, size, attachVars>>

\* header_->data_size_ = size and the rest of the fields; return true.
ShmInitData ==
  /\ ownerPc = "data"
  /\ hdr' = [hdr EXCEPT !["new"].data = size]
  /\ ownerPc' = "ready"
  /\ UNCHANGED <<named, objLen, size, attachVars>>

\* CreateNewSharedMemory fails after DestroySharedMemory(url) unlinked the
\* leftover object: log and return false.  flags_ keep Initialized and Owned.
ShmInitCreateFail ==
  /\ ownerPc = "start"
  /\ named' = None
  /\ ownerPc' = "failed"
  /\ UNCHANGED <<hdr, objLen, size, attachVars>>

\* _ShmMap(total_size_) fails and throws SHMEM_CREATE_FAILED: the new object
\* stays under the url with its header never written.
ShmInitMapFail ==
  /\ ownerPc = "map"
  /\ ownerPc' = "threw"
  /\ UNCHANGED <<named, hdr, objLen, size, attachVars>>

\* shm_destroy, or the destructor of the owned backend, after shm_init
\* returned or threw (it set Initialized before anything could fail):
\* _Detach, then DestroySharedMemory(url_).  After a failed create url_ was
\* never set and the url already names nothing.
ShmDestroy ==
  /\ ownerPc \in {"ready", "failed", "threw"}
  /\ named' = None
  /\ ownerPc' = "gone"
  /\ UNCHANGED <<hdr, objLen, size, attachVars>>

\* The owner calls shm_detach: _Detach unmaps and clears Initialized, so its
\* destructor's _Destroy returns at once and the object stays under the url.
ShmDetachOwner ==
  /\ ownerPc = "ready"
  /\ ownerPc' = "detached"
  /\ UNCHANGED <<named, hdr, objLen, size, attachVars>>

(* ----- attachers: shm_attach, shm_detach ----- *)

\* shm_attach starts with flags_.Clear(), SetInitialized(), Disown().
\* OpenSharedMemory fails (no object under the url): return false, with the
\* initialized flag left set; the caller may try again.
AttachOpenFail(a) ==
  /\ apc[a] = "start"
  /\ attempts[a] < MaxAttaches
  /\ named = None
  /\ attempts' = [attempts EXCEPT ![a] = @ + 1]
  /\ ainit' = [ainit EXCEPT ![a] = TRUE]
  /\ UNCHANGED <<ownerVars, apc, afd, alocal, aview, amap>>

\* OpenSharedMemory(fd_, url) opens the object the url names.
AttachOpen(a) ==
  /\ apc[a] = "start"
  /\ attempts[a] < MaxAttaches
  /\ named # None
  /\ afd' = [afd EXCEPT ![a] = named]
  /\ apc' = [apc EXCEPT ![a] = "hdr"]
  /\ attempts' = [attempts EXCEPT ![a] = @ + 1]
  /\ ainit' = [ainit EXCEPT ![a] = TRUE]
  /\ UNCHANGED <<ownerVars, alocal, aview, amap>>

\* Map kAlignment bytes, read md_size_ and data_size_, compute
\* aligned_md_size and total_size_, unmap; header_ still points at the
\* unmapped page.
AttachReadHeader(a) ==
  /\ apc[a] = "hdr"
  /\ LET h == hdr[afd[a]]
     IN alocal' = [alocal EXCEPT ![a] =
                     [aligned |-> AlignUp(h.md), total |-> AlignUp(h.md) + h.data]]
  /\ apc' = [apc EXCEPT ![a] = "map"]
  /\ amap' = [amap EXCEPT ![a] = "stale"]
  /\ UNCHANGED <<ownerVars, afd, aview, attempts, ainit>>

\* _ShmMap(total_size_) with total_size_ = 0: mmap fails and _ShmMap
\* throws SHMEM_CREATE_FAILED.
AttachMapFail(a) ==
  /\ apc[a] = "map"
  /\ alocal[a].total = 0
  /\ apc' = [apc EXCEPT ![a] = "threw"]
  /\ UNCHANGED <<ownerVars, afd, alocal, aview, attempts, ainit, amap>>

\* Map total_size_; data_ = ptr + aligned_md_size; data_size_ is read
\* again from the mapped header; return true.
AttachMap(a) ==
  /\ apc[a] = "map"
  /\ alocal[a].total > 0
  /\ aview' = [aview EXCEPT ![a] =
                 [mapped |-> alocal[a].total, dataOff |-> alocal[a].aligned,
                  data |-> hdr[afd[a]].data]]
  /\ apc' = [apc EXCEPT ![a] = "ready"]
  /\ amap' = [amap EXCEPT ![a] = "live"]
  /\ UNCHANGED <<ownerVars, afd, alocal, attempts, ainit>>

\* _Detach: return at once unless IsInitialized(); otherwise unmap header_
\* for total_size_ (header_ keeps pointing there), close fd_ and clear the
\* flag.
UnmapHeader(a) ==
  /\ ainit[a]
  /\ afd' = [afd EXCEPT ![a] = None]
  /\ ainit' = [ainit EXCEPT ![a] = FALSE]
  /\ amap' = [amap EXCEPT ![a] = IF @ = "live" THEN "stale" ELSE @]

\* shm_detach, or the destructor of a backend that is not owned (shm_attach
\* calls Disown), between shm_attach calls: after one returned true or
\* false, or threw.  The backend may be attached again.
AttachDetach(a) ==
  /\ apc[a] \in {"start", "ready", "threw"}
  /\ UnmapHeader(a)
  /\ apc' = [apc EXCEPT ![a] = "start"]
  /\ UNCHANGED <<ownerVars, alocal, aview, attempts>>

Next ==
  \/ ShmInitCreate \/ ShmInitCreateFail \/ ShmInitMap \/ ShmInitMapFail
  \/ ShmInitData \/ ShmDestroy \/ ShmDetachOwner
  \/ \E a \in Attachers :
       \/ AttachOpenFail(a) \/ AttachOpen(a) \/ AttachReadHeader(a)
       \/ AttachMapFail(a) \/ AttachMap(a) \/ AttachDetach(a)

Spec == Init /\ [][Next]_vars

-----------------------------------------------------------------------------
(* Properties *)

\* Every object's data size is zero (not yet written) or at least the
\* kMinBackendSize that shm_init rounds up to.
TypeOK ==
  /\ named \in Objs \cup {None}
  /\ \A o \in Objs : hdr[o].data = 0 \/ hdr[o].data >= MinSize
  /\ ownerPc \in {"start", "map", "data", "ready", "failed", "threw",
                  "detached", "gone"}
  /\ apc \in [Attachers -> {"start", "hdr", "map", "ready", "threw"}]
  /\ attempts \in [Attachers -> 0 .. MaxAttaches]
  /\ ainit \in [Attachers -> BOOLEAN]
  /\ amap \in [Attachers -> {"none", "live", "stale"}]

\* An attach that returns true maps the whole data area it reports:
\* data_ .. data_ + data_size_ lies inside the total_size_ it mapped.
MappedCoversData ==
  \A a \in Attachers :
    apc[a] = "ready" => aview[a].dataOff + aview[a].data <= aview[a].mapped

\* Whatever the start order, an attach never maps past the end of the
\* object it opened (an access there would raise SIGBUS): the header it
\* reads is either still zero or complete, and either way describes no
\* more than the object's length.
MappedWithinObject ==
  \A a \in Attachers :
    apc[a] \in {"map", "ready"} => alocal[a].total <= objLen[afd[a]]

\* Every munmap that _Detach makes (shm_detach, or the destructor of an
\* attacher) of a non-empty range releases the mapping this backend holds:
\* a step that clears the initialized flag with total_size_ > 0 starts from
\* header_ pointing at a live mapping of its own, never at pages it
\* already unmapped (which may by then belong to another mapping).
DetachUnmapsOwnMapping ==
  [][\A a \in Attachers :
       ainit[a] /\ ~ainit'[a] /\ alocal[a].total > 0 => amap[a] = "live"]_vars
=============================================================================
