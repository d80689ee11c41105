------------------------ MODULE MemviewAcquisition ------------------------
(***************************************************************************)
(* Reference counting of typed memoryviews (Cython/Utility/MemoryView_C.c, *)
(* MemviewRefcount and MemviewSliceInit).  Slices are C structs that        *)
(* threads copy and clear without the GIL; they count themselves in the     *)
(* memoryview object's atomic acquisition count, and all of them together   *)
(* own one Python reference, taken by the slice that finds the count at 0   *)
(* and dropped by the slice that brings it back to 0.  Between the change   *)
(* of the count and that of the reference count other threads run.          *)
(*                                                                         *)
(* The model follows one memoryview object.  A Slice is a slice variable:   *)
(* a C local, a closure or extension type field, or the from_slice field of *)
(* a _memoryviewslice object.  A Holder is a place that can own an ordinary *)
(* Python reference to the object.  Changes of the reference count happen   *)
(* under the GIL (or atomically in free-threaded builds), hence one step    *)
(* each.                                                                    *)
(***************************************************************************)
EXTENDS Counting

CONSTANTS Slice, Holder, creator, NULL

ASSUME FinitePlaces == IsFiniteSet(Slice) /\ IsFiniteSet(Holder)
ASSUME CreatorAssumption == creator \in Holder /\ NULL \notin Holder

VARIABLES
    acquisitionCount,  \* memview->acquisition_count
    refcount,          \* Py_REFCNT of the memoryview object
    object,            \* "fresh": just created, nobody else knows it; "shared";
                       \* "deallocated"
    slice,             \* the state of each slice variable
    borrowed,          \* the reference that keeps the object alive meanwhile
    ref                \* which holders own a Python reference

vars == <<acquisitionCount, refcount, object, slice, borrowed, ref>>

(* "acquiring": counted, its Py_INCREF still to come.  "releasing": no longer *)
(* counted, its Py_CLEAR still to come.  "fatal": Py_FatalError.              *)
SliceStates == {"null", "acquiring", "live", "releasing", "fatal"}
Counted == {"acquiring", "live"}

Init ==
    /\ acquisitionCount = 0
    /\ refcount = 1
    /\ object = "fresh"
    /\ slice = [s \in Slice |-> "null"]
    /\ borrowed = [s \in Slice |-> NULL]
    /\ ref = [h \in Holder |-> IF h = creator THEN "held" ELSE "none"]

Shared == IF object = "fresh" THEN "shared" ELSE object
Incref == refcount' = refcount + 1 /\ object' = Shared
Decref == /\ refcount' = refcount - 1
          /\ object' = IF refcount = 1 THEN "deallocated" ELSE Shared

-----------------------------------------------------------------------------
(* Python references.                                                      *)

ShareRef(h, k) ==
    /\ ref[h] = "held" /\ ref[k] = "none"
    /\ ref' = [ref EXCEPT ![k] = "held"]
    /\ Incref
    /\ UNCHANGED <<acquisitionCount, slice, borrowed>>

DropRef(h) ==
    /\ ref[h] = "held"
    /\ \A s \in Slice : borrowed[s] # h
    /\ ref' = [ref EXCEPT ![h] = "none"]
    /\ Decref
    /\ UNCHANGED <<acquisitionCount, slice, borrowed>>

-----------------------------------------------------------------------------
(* The atomic increment of __Pyx_INC_MEMVIEW and __Pyx_init_memviewslice, and *)
(* what its old value makes the caller do.  The slice is a copy of a slice or *)
(* of the fields of the object, kept alive by the reference "keeper".         *)

AddAcquisition(s, keeper) ==
    /\ acquisitionCount' = acquisitionCount + 1
    /\ slice' = [slice EXCEPT ![s] = IF acquisitionCount = 0 THEN "acquiring"
                                     ELSE IF acquisitionCount > 0 THEN "live"
                                     ELSE "fatal"]
    /\ borrowed' = [borrowed EXCEPT ![s] = IF acquisitionCount = 0 THEN keeper ELSE NULL]

(* A slice of a memoryview object the caller has a reference to.             *)
AcquireFromObject(s, h) ==
    /\ slice[s] = "null" /\ ref[h] = "held"
    /\ AddAcquisition(s, h)
    /\ object' = Shared
    /\ UNCHANGED <<refcount, ref>>

(* __Pyx_init_memviewslice of an object it just created: the new reference   *)
(* becomes the one the slices own.                                           *)
AcquireNewReference(s) ==
    /\ object = "fresh" /\ slice[s] = "null"
    /\ acquisitionCount' = acquisitionCount + 1
    /\ slice' = [slice EXCEPT ![s] = "live"]
    /\ ref' = [ref EXCEPT ![creator] = "none"]
    /\ object' = Shared
    /\ UNCHANGED <<refcount, borrowed>>

(* Copying a live slice, which stays live while it is copied.  The code finds *)
(* a positive count, but it runs the same test.                              *)
CopySlice(s, u) ==
    /\ slice[s] = "null" /\ slice[u] = "live"
    /\ AddAcquisition(s, NULL)
    /\ UNCHANGED <<refcount, object, ref>>

FinishAcquire(s) ==
    /\ slice[s] = "acquiring"
    /\ slice' = [slice EXCEPT ![s] = "live"]
    /\ borrowed' = [borrowed EXCEPT ![s] = NULL]
    /\ Incref
    /\ UNCHANGED <<acquisitionCount, ref>>

-----------------------------------------------------------------------------
(* __Pyx_XCLEAR_MEMVIEW                                                    *)

(* Mutant: the last slice tests the new count like the others.               *)
SubAcquisitionOffByOne(s) ==
    /\ slice[s] = "live"
    /\ acquisitionCount' = acquisitionCount - 1
    /\ slice' = [slice EXCEPT ![s] = IF acquisitionCount >= 1 THEN "null" ELSE "fatal"]
    /\ UNCHANGED <<refcount, object, borrowed, ref>>

(* Mutant: the tests are those for the new count, made on the old one.         *)
SubAcquisitionNewCount(s) ==
    /\ slice[s] = "live"
    /\ acquisitionCount' = acquisitionCount - 1
    /\ slice' = [slice EXCEPT ![s] = IF acquisitionCount > 1 THEN "null"
                                     ELSE IF acquisitionCount = 0 THEN "releasing"
                                     ELSE "fatal"]
    /\ UNCHANGED <<refcount, object, borrowed, ref>>

(* Mutant: the reference is dropped by the slice that leaves one other.       *)
SubAcquisitionEarly(s) ==
    /\ slice[s] = "live"
    /\ acquisitionCount' = acquisitionCount - 1
    /\ slice' = [slice EXCEPT ![s] = IF acquisitionCount = 2 THEN "releasing" ELSE "null"]
    /\ UNCHANGED <<refcount, object, borrowed, ref>>

SubAcquisition(s) ==
    /\ slice[s] = "live"
    /\ acquisitionCount' = acquisitionCount - 1
    /\ slice' = [slice EXCEPT ![s] = IF acquisitionCount > 1 THEN "null"
                                     ELSE IF acquisitionCount = 1 THEN "releasing"
                                     ELSE "fatal"]
    /\ UNCHANGED <<refcount, object, borrowed, ref>>

FinishRelease(s) ==
    /\ slice[s] = "releasing"
    /\ slice' = [slice EXCEPT ![s] = "null"]
    /\ Decref
    /\ UNCHANGED <<acquisitionCount, borrowed, ref>>

-----------------------------------------------------------------------------
(* The object is gone and every variable that referred to it is cleared.     *)
Done == /\ object = "deallocated" /\ slice = [s \in Slice |-> "null"]
        /\ UNCHANGED vars

Next ==
    \/ \E h \in Holder : DropRef(h) \/ \E k \in Holder : ShareRef(h, k)
    \/ \E s \in Slice :
          \/ \E h \in Holder : AcquireFromObject(s, h)
          \/ AcquireNewReference(s)
          \/ \E u \in Slice : CopySlice(s, u)
          \/ FinishAcquire(s)
          \/ SubAcquisition(s)
          \/ FinishRelease(s)
    \/ Done

Spec == Init /\ [][Next]_vars

-----------------------------------------------------------------------------
TypeOK ==
    /\ acquisitionCount \in Int /\ refcount \in Int
    /\ object \in {"fresh", "shared", "deallocated"}
    /\ slice \in [Slice -> SliceStates]
    /\ borrowed \in [Slice -> Holder \cup {NULL}]
    /\ ref \in [Holder -> {"none", "held"}]

(* The acquisition count never goes wrong: Py_FatalError is not reached.      *)
NoFatalError == \A s \in Slice : slice[s] # "fatal"

(* A slice that may be indexed, or whose count or reference is being adjusted, *)
(* has its object: the buffer it points into was not released.                *)
SlicesHaveObject == (\E s \in Slice : slice[s] # "null") => object # "deallocated"

(* A Python reference never dangles either.                                   *)
RefsHaveObject == (\E h \in Holder : ref[h] = "held") => object # "deallocated"

(* The reference count is that of the holders, plus the one the slices own    *)
(* together, plus those a release has still to drop, less those an            *)
(* acquisition has still to take.                                             *)
RefcountExact ==
    refcount = Count(ref, Holder, {"held"})
               + (IF acquisitionCount > 0 THEN 1 ELSE 0)
               + Count(slice, Slice, {"releasing"})
               - Count(slice, Slice, {"acquiring"})

(* When the last slice and the last reference are gone so is the object.      *)
NoLeak == (\A s \in Slice : slice[s] = "null") /\ (\A h \in Holder : ref[h] = "none")
             => object = "deallocated"

(* The acquisition count is the number of counted slices.                     *)
CountExact == acquisitionCount = Count(slice, Slice, Counted)

ObjectAlive == object # "deallocated" <=> refcount > 0

(* While a slice takes its reference the caller's one keeps the object alive.  *)
KeepersHeld ==
    \A s \in Slice : IF slice[s] = "acquiring"
                     THEN borrowed[s] \in Holder /\ ref[borrowed[s]] = "held"
                     ELSE borrowed[s] = NULL

OneAcquiring ==
    \A s, u \in Slice : slice[s] = "acquiring" /\ slice[u] = "acquiring" => s = u

FreshUnknown ==
    object = "fresh" => /\ \A s \in Slice : slice[s] = "null"
                        /\ \A h \in Holder : ref[h] = "held" <=> h = creator

(* The inductive invariant.                                                  *)
AcquisitionInv ==
    /\ TypeOK /\ CountExact /\ RefcountExact /\ ObjectAlive /\ NoFatalError
    /\ KeepersHeld /\ OneAcquiring /\ FreshUnknown
=============================================================================
