----------------------------- MODULE MCAssetStore ----------------------------
(***************************************************************************)
(* Instances of AssetStore for TLC: what the directory holds at the start, *)
(* which calls the callers make and what the operator puts there.          *)
(***************************************************************************)
EXTENDS AssetStoreRefinement, TLC

CONSTANTS
    c1, c2, c3,  \* callers
    img, logo    \* two keys: img may be a directory, with logo in it

Undeclared == -1

Dropped(n, length) == [by |-> Operator, nth |-> n, length |-> length]

Store(k, size, length) ==
    [op |-> "put", key |-> k, size |-> size, length |-> length, fails |-> FALSE]

Broken(k, size, length) == [Store(k, size, length) EXCEPT !.fails = TRUE]

Ask(op, k) == [op |-> op, key |-> k]

Siblings == [k \in Keys |-> Root]

Nested == [k \in Keys |-> IF k = logo THEN img ELSE Root]

NothingPlaced == {}

(* One key, img, that holds nothing, an object of somebody else's, or a    *)
(* symbolic link to one.                                                   *)
OneKeyNames ==
    {img :> Absent @@ logo :> Dropped(0, 2),
     img :> Dropped(0, 1) @@ logo :> Dropped(1, 2),
     img :> Link @@ logo :> Dropped(0, 2)}

OneKeyCalls ==
    c1 :> {Store(img, SizeUnknown, 2), Store(img, 0, 2), Store(img, 2, 1),
           Broken(img, SizeUnknown, 1)}
 @@ c2 :> {Ask("get", img), Ask("stat", img), Ask("delete", img), Store(img, 1, 1)}
 @@ c3 :> {Ask("get", img), Ask("delete", img)}

(* img is an object, a directory or neither while logo is stored in it.    *)
PrefixNames ==
    {img :> Absent @@ logo :> Absent,
     img :> Dropped(0, 1) @@ logo :> Absent,
     img :> Directory @@ logo :> Absent,
     img :> Directory @@ logo :> Dropped(0, 1)}

PrefixCalls ==
    c1 :> {Store(logo, SizeUnknown, 1), Store(img, 1, 1)}
 @@ c2 :> {Ask("delete", img), Ask("delete", logo), Ask("get", img), Ask("stat", logo)}

PrefixPlaced == {<< img, Absent >>, << img, Directory >>, << img, Dropped(1, 1) >>,
                 << logo, Absent >>, << logo, Dropped(2, 0) >>}
==============================================================================
