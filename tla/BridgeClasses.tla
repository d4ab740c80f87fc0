---- MODULE BridgeClasses ----
(***************************************************************************)
(* The classes of the bridge.  Each one hides a core object, in one of two *)
(* ways that are chosen when the library is built: "generated" keeps the   *)
(* object inside the handle, "shared" keeps a std::shared_ptr to it.  A    *)
(* class is described, for each build, by where the object is kept and by  *)
(* what its four special members do to it.                                 *)
(*   clone    make another object with the same value                      *)
(*   share    point to the same object                                     *)
(*   take     point to the object, and leave the source without one        *)
(*   drain    make an object from what is moved out of the source's        *)
(*   replace  delete the object, then clone the source's                   *)
(*   nest     wrap the source's pointer as if it were the object           *)
(*   misread  build an object from the bytes of one of another type        *)
(*   none     the member is deleted, or not declared                       *)
(***************************************************************************)
EXTENDS Integers

Kinds == {"clone", "share", "take", "drain", "replace", "nest", "misread", "none"}

Embedded == [kept |-> "alone", copy |-> "clone", assign |-> "clone",
             move |-> "drain", moveAssign |-> "drain"]
Counted == [kept |-> "counted", copy |-> "share", assign |-> "share",
            move |-> "take", moveAssign |-> "take"]
Trivial == [Embedded EXCEPT !.move = "clone", !.moveAssign = "clone"]
Built(generated, shared) == [generated |-> generated, shared |-> shared]
MoveOnly(b) == [b EXCEPT !.copy = "none", !.assign = "none"]
AssignOnly(b) == [b EXCEPT !.copy = "none", !.move = "none"]

Plain == Built(Embedded, Counted)
Inline == Built(Trivial, Trivial)

List == Plain
Set == Plain
LnkLst == Plain
CoreDictionary == Plain
Dictionary == Plain
Results == Plain
Obj == Plain
Object == Plain
Table == Plain
ObjLink == Plain
IndexSet == Plain
AppError == Plain
Credentials == Plain
SyncError == Plain
Status == Plain
Schema == Plain
Property == Plain
ObjectSchema == Plain
Config == Plain
Mixed == Plain
Decimal128 == Inline
Timestamp == Inline
Uuid == Inline
ObjectId == Inline
ErrorCategory == Inline

(* The copy constructor takes the other view for a TableRef. *)
TableView == Built([Embedded EXCEPT !.copy = "misread"], Counted)
(* Copied, never moved, when it is shared. *)
ChangeSet ==
    Built(Embedded, [Counted EXCEPT !.copy = "clone", !.assign = "clone",
                                    !.move = "clone", !.moveAssign = "clone"])
NotificationToken == Built(MoveOnly(Embedded), MoveOnly(Counted))
(* make_shared<any>(m_iterator) keeps the pointer, not the iterator. *)
IndexIterator ==
    Built(Embedded, [Counted EXCEPT !.copy = "nest", !.assign = "nest",
                                    !.move = "nest", !.moveAssign = "nest"])
IndexAdaptor == Built(Trivial, Counted)
(* The move assignment copies the pointer. *)
ThreadSafeReference ==
    Built(MoveOnly(Embedded), [MoveOnly(Counted) EXCEPT !.moveAssign = "share"])
MutableSubscriptions == Built(AssignOnly(Embedded), AssignOnly(Counted))
SubscriptionSet == Built(AssignOnly(Embedded), AssignOnly(Counted))

(* A char array of its own in the second build. *)
(* Fault: the copy keeps the other's array. *)
BinarySharesArray ==
    Built(Embedded, [kept |-> "alone", copy |-> "share", assign |-> "replace",
                     move |-> "clone", moveAssign |-> "replace"])
Binary ==
    Built(Embedded, [kept |-> "alone", copy |-> "clone", assign |-> "replace",
                     move |-> "clone", moveAssign |-> "replace"])

Classes ==
    [list |-> List, set |-> Set, lnklst |-> LnkLst, core_dictionary |-> CoreDictionary,
     dictionary |-> Dictionary, results |-> Results, obj |-> Obj, object |-> Object,
     table |-> Table, obj_link |-> ObjLink, index_set |-> IndexSet, app_error |-> AppError,
     credentials |-> Credentials, sync_error |-> SyncError, status |-> Status,
     schema |-> Schema, property |-> Property, object_schema |-> ObjectSchema,
     config |-> Config, mixed |-> Mixed, decimal128 |-> Decimal128, timestamp |-> Timestamp,
     uuid |-> Uuid, object_id |-> ObjectId, error_category |-> ErrorCategory,
     table_view |-> TableView, collection_change_set |-> ChangeSet,
     notification_token |-> NotificationToken, index_iterator |-> IndexIterator,
     index_iterable_adaptor |-> IndexAdaptor, thread_safe_reference |-> ThreadSafeReference,
     mutable_sync_subscription_set |-> MutableSubscriptions,
     sync_subscription_set |-> SubscriptionSet, binary |-> Binary]

(* What operator== compares, where a class has one: the value, the bits of *)
(* its representation, the name alone, or the address of the object.       *)
TableEquals == "value"
ObjLinkEquals == "value"
MixedEquals == "value"
BinaryEquals == "value"
IndexIteratorEquals == "value"
Decimal128Equals == "bits"
ObjectSchemaEquals == "name"
ErrorCategoryEquals == "address"
Compared ==
    [table |-> TableEquals, obj_link |-> ObjLinkEquals, mixed |-> MixedEquals,
     binary |-> BinaryEquals, index_iterator |-> IndexIteratorEquals,
     timestamp |-> "value", uuid |-> "value", object_id |-> "value",
     decimal128 |-> Decimal128Equals, object_schema |-> ObjectSchemaEquals,
     error_category |-> ErrorCategoryEquals]
====
