------------------------------- MODULE Schema -------------------------------
(***************************************************************************)
(* The tables of the shop, as far as rows refer to rows: for each module   *)
(* its entity (the columns that hold ids of other rows), its form (those   *)
(* that a request can write), its resolver (the operations, which of them  *)
(* UseAuthGuard protects, and the fields that a loader resolves).  Records *)
(* gives them their behaviour.  Last come the tables that the migrations   *)
(* create, which are not quite those of the entities.                      *)
(***************************************************************************)
EXTENDS FiniteSets

\* Every row says whether it is active, who created it and who last changed it.
StampColumns == {"created_by", "updated_by"}

\* A table with its columns for one id and for an array of ids.
Table(name, one, many) ==
    [name |-> name, one |-> one \cup StampColumns, many |-> many, data |-> {"is_active"}]

\* The other columns are left out, but where entity and migration differ in them.
WithData(table, data) == [table EXCEPT !.data = @ \cup data]

Columns(table) == table.one \cup table.many \cup table.data

\* The operations of a resolver, behind a guard and open.
Ops(guarded, open) == [guarded |-> guarded, open |-> open]
Writes == {"create", "update", "delete"}
CRUD == {"query"} \cup Writes

\* A field that looks up the ids in a column of the row itself ...
Refers(name, column, table) ==
    [name |-> name, by |-> "id", column |-> column, table |-> table, reads |-> "each"]

\* ... or the rows of a table whose column holds the row's id.
Holds(name, table, column) ==
    [name |-> name, by |-> "rows", column |-> column, table |-> table, reads |-> "each"]

\* How a field reads what the loader answers: "each" row it finds, the "first" of them, "all" or an
\* error (a missing one puts null into a list of non-null items), or "none" (it indexes a Map).
Reading(field, reads) == [field EXCEPT !.reads = reads]

\* The resolvers show who created and who last changed a row.
Stamps == {Refers("creator", "created_by", "users"), Refers("updater", "updated_by", "users")}

-----------------------------------------------------------------------------
(* Users, roles, permissions.                                              *)

UserTable == Table("users", {"avatar_id"}, {"role_ids"})
UserForm == {"role_ids"}
UserOps == Ops(CRUD, {})
UserFields == Stamps \cup {Refers("avatar", "avatar_id", "file_uploads"),
                           Refers("roles", "role_ids", "roles")}
UserLookUps == {"create", "update"} \X {"role_ids"}

RoleTable == Table("roles", {}, {"permission_ids"})
RoleForm == {"permission_ids"}
RoleOps == Ops(CRUD, {})
RoleFields == {Refers("permissions", "permission_ids", "permissions")}
              \cup {Reading(f, "none") : f \in Stamps}
RoleLookUps == {"create", "update"} \X {"permission_ids"}

PermissionTable == Table("permissions", {}, {})
PermissionOps == Ops({"query"}, {})

FileUploadTable == Table("file_uploads", {"owner_by"}, {})
FileUploadForm == {"owner_by"}
FileUploadOps == Ops(CRUD, {"create"})      \* the two signed-URL mutations are open
FileUploadFields == Stamps \cup {Refers("owner", "owner_by", "users")}

-----------------------------------------------------------------------------
(* The catalogue.                                                          *)

ProductTable == Table("products", {"thumbnail_id", "base_unit_id"},
                      {"gallery_image_ids", "attachment_ids", "category_ids",
                       "attribute_ids", "attribute_value_ids"})
ProductForm == {"thumbnail_id", "gallery_image_ids", "attachment_ids", "category_ids",
                "attribute_ids", "attribute_value_ids",
                "base_unit_id"}             \* chosen among the form's units: see Catalogue
ProductOps == Ops(Writes, {"query"})
ProductFields == Stamps \cup {
    Refers("thumbnail", "thumbnail_id", "file_uploads"),
    Refers("gallery_images", "gallery_image_ids", "file_uploads"),
    Refers("attachments", "attachment_ids", "file_uploads"),
    Refers("base_unit", "base_unit_id", "conversion_units"),
    Refers("categories", "category_ids", "categories"),
    Refers("values", "attribute_value_ids", "product_attribute_values"),
    Reading(Refers("attributes", "attribute_ids", "product_attributes"), "all"),
    Holds("conversion_units", "conversion_units", "product_id"),
    Holds("variants", "product_variants", "product_id"),
    Holds("product_reviews", "product_reviews", "product_id")}

ProductVariantTable == Table("product_variants", {"product_id", "base_unit_id"},
                             {"gallery_image_ids", "attribute_ids", "attribute_value_ids"})
\* The other columns are derived by createProductVariant and updateProductVariant, which nobody
\* calls: variants are saved with their product.
ProductVariantForm == {"product_id", "base_unit_id"}
ProductVariantFields == Stamps \cup {
    Refers("gallery_images", "gallery_image_ids", "file_uploads"),
    Refers("values", "attribute_value_ids", "product_attribute_values"),
    Reading(Refers("attributes", "attribute_ids", "product_attributes"), "all"),
    Refers("base_unit", "base_unit_id", "conversion_units"),
    Holds("conversion_units", "conversion_units", "variant_id")}

ConversionUnitTable == Table("conversion_units", {"product_id", "variant_id", "unit_id"}, {})
ConversionUnitForm == {"product_id", "variant_id", "unit_id"}
ConversionUnitOps == Ops(Writes, {"query"})
ConversionUnitFields == Stamps \cup {Refers("unit", "unit_id", "units")}

UnitTable == Table("units", {}, {})
UnitOps == Ops(Writes, {"query"})
UnitFields == Stamps

CategoryTable == Table("categories", {"thumbnail_id", "parent_id"}, {"children_ids"})
\* The form has a "thumbnail", for which the entity has neither column nor relation.
CategoryForm == {"parent_id", "children_ids"}
CategoryOps == Ops(Writes, {"query"})
CategoryFields == Stamps \cup {Refers("children", "children_ids", "categories"),
                               Refers("thumbnail", "thumbnail_id", "file_uploads")}
\* createCategory only: updateCategory of the service is called by nobody.
CategoryLookUps == {"create"} \X {"parent_id", "children_ids"}

ProductAttributeTable == Table("product_attributes", {}, {})
ProductAttributeOps == Ops(Writes, {"query"})
ProductAttributeFields == Stamps \cup {Holds("values", "product_attribute_values", "attribute_id")}

ProductAttributeValueTable == Table("product_attribute_values", {"attribute_id"}, {})
ProductAttributeValueForm == {"attribute_id"}
ProductAttributeValueOps == Ops(Writes, {"query"})
ProductAttributeValueFields == Stamps

ProductReviewTable ==
    WithData(Table("product_reviews", {"user_id", "product_id"}, {"attachment_ids"}), {"rate", "content"})
ProductReviewForm == {"product_id", "attachment_ids"}
ProductReviewOps == Ops(CRUD, {})
ProductReviewFields == Stamps \cup {Refers("attachments", "attachment_ids", "file_uploads")}

-----------------------------------------------------------------------------
(* Orders (OrderLifecycle and Cart have their handlers).                   *)

OrderTable == Table("orders", {"customer_id"}, {})
OrderForm == {"customer_id"}
OrderOps == Ops(CRUD, {"query"})            \* trackingOrder is open
OrderFields == Stamps \cup {Refers("customer", "customer_id", "users"),
                            Holds("order_details", "order_details", "order_id"),
                            Holds("histories", "order_histories", "order_id")}
\* CartResolver resolves the same fields of the same type.
CartFields == OrderFields

OrderDetailTable == Table("order_details", {"order_id", "product_id", "variant_id", "conversion_unit_id"}, {})
OrderDetailForm == {"order_id", "product_id", "variant_id", "conversion_unit_id"}
OrderDetailFields == Stamps \cup {
    Refers("product", "product_id", "products"),
    Refers("variant", "variant_id", "product_variants"),
    Refers("conversion_unit", "conversion_unit_id", "conversion_units"),
    Reading(Holds("shipping", "order_shippings", "order_detail_id"), "first")}

OrderShippingTable == Table("order_shippings", {"order_detail_id", "address_id"}, {})
OrderShippingForm == {"order_detail_id"}
OrderShippingOps == Ops({}, {"query"})
OrderShippingFields == Stamps

OrderHistoryTable == Table("order_histories", {"order_id", "order_detail_id"}, {})
OrderHistoryForm == {"order_id"}
OrderHistoryFields == Stamps

-----------------------------------------------------------------------------
(* Bookings, appointments, blogs, addresses.                               *)

BookingTable == Table("bookings", {"customer_id"}, {"category_ids", "product_ids", "attachment_ids"})
BookingForm == {"customer_id", "category_ids", "product_ids", "status"}
BookingOps == Ops(CRUD, {"query", "status"})    \* myBooking and the status mutations are open
BookingFields == Stamps \cup {Refers("customer", "customer_id", "users"),
                              Refers("categories", "category_ids", "categories"),
                              Refers("products", "product_ids", "products"),
                              Refers("attachments", "attachment_ids", "file_uploads")}
BookingTransitions ==
    [PENDING     |-> {"CONFIRMED", "CANCELLED"},
     CONFIRMED   |-> {"COMPLETED", "CANCELLED", "RESCHEDULED"},
     RESCHEDULED |-> {"CONFIRMED", "CANCELLED"},
     COMPLETED   |-> {},
     CANCELLED   |-> {}]

AppointmentTable == Table("appointments", {"customer_id"}, {"attachment_ids"})
AppointmentForm == {"customer_id", "attachment_ids"}
AppointmentOps == Ops(CRUD, {"status"})
AppointmentFields == Stamps \cup {Refers("customer", "customer_id", "users"),
                                  Refers("attachments", "attachment_ids", "file_uploads")}
AppointmentTransitions == BookingTransitions

BlogTable == WithData(Table("blogs", {}, {"category_ids"}),
                      {"short_description", "meta_title", "meta_description", "meta_keywords", "meta_robots"})
BlogForm == {}                              \* "categories" sets the relation, not category_ids
BlogOps == Ops({"update", "delete"}, {"query", "create"})
BlogFields == Stamps \cup {Refers("categories", "category_ids", "categories")}

AddressTable == Table("addresses", {}, {})
AddressOps == Ops(CRUD, {})
AddressFields == Stamps

-----------------------------------------------------------------------------
(* The database.                                                           *)

\* A table as a migration creates it: its columns but for the stamps, those of them that are NOT
\* NULL, and those with a foreign key.
Created(columns, required, keys) ==
    [columns |-> columns \cup StampColumns, required |-> required, keys |-> keys]

MigratedUsers ==
    [users       |-> Created({"avatar_id", "role_ids"}, {}, {}),
     roles       |-> Created({"permission_ids"}, {}, {}),
     permissions |-> Created({}, {}, {})]

MigratedProducts ==
    [categories               |-> Created({"thumbnail_id", "parent_id", "children_ids"}, {}, {}),
     units                    |-> Created({}, {}, {}),
     products                 |-> Created({"thumbnail_id", "gallery_image_ids", "attachment_ids", "category_ids",
                                           "base_unit_id", "attribute_ids", "attribute_value_ids"}, {}, {}),
     product_attributes       |-> Created({}, {}, {}),
     product_attribute_values |-> Created({"attribute_id"}, {}, {"attribute_id"}),
     product_variants         |-> Created({"product_id", "attribute_ids", "attribute_value_ids",
                                           "gallery_image_ids", "base_unit_id"}, {}, {"product_id"}),
     product_reviews          |-> Created({"user_id", "product_id", "rating", "comment", "attachment_ids"},
                                          {"rating"}, {"user_id", "product_id"})]

MigratedUnits ==
    [conversion_units |-> Created({"product_id", "variant_id", "unit_id"}, {},
                                  {"product_id", "variant_id", "unit_id"})]

MigratedOrders ==
    [orders          |-> Created({"customer_id"}, {}, {}),
     order_details   |-> Created({"order_id", "product_id", "variant_id", "conversion_unit_id"},
                                 {"product_id", "variant_id", "conversion_unit_id"}, {"order_id"}),
     order_shippings |-> Created({"order_detail_id", "address_id"}, {}, {"order_detail_id"}),
     order_histories |-> Created({"order_id", "order_detail_id"}, {}, {})]

MigratedOthers ==
    [addresses    |-> Created({}, {}, {}),
     appointments |-> Created({"customer_id", "attachment_ids"}, {}, {"customer_id"}),
     blogs        |-> Created({"thumbnail_id", "author_id"}, {}, {"author_id"}),
     bookings     |-> Created({"customer_id", "category_ids", "product_ids", "attachment_ids"}, {}, {}),
     file_uploads |-> Created({"owner_by"}, {}, {})]

=============================================================================
