----------------------------- MODULE CatalogueRules -----------------------------
(***************************************************************************)
(* The rules of the catalogue that keep no state: which categories are     *)
(* locked and which attributes their products carry (category.constants.ts,*)
(* product.attributes.ts), and what a listing of the products answers      *)
(* (ProductService.list and buildFacets, BrandService.list).               *)
(*                                                                         *)
(* Names stand for themselves in lower case, as every comparison of the    *)
(* code ignores case. A document is a record, a collection a function from *)
(* the stored ids.                                                         *)
(***************************************************************************)
EXTENDS Integers, FiniteSets, Sequences

LOCKED_CATEGORY_NAMES == {"cigarettes", "cigars", "ryo", "accessories"}

isLockedCategoryName(name) == name \in LOCKED_CATEGORY_NAMES

\* The filter sidebar: per category the attributes and their options.
PRODUCT_ATTRIBUTE_SCHEMA ==
    [cigarettes |->
        [strength |-> {"ultra light", "light", "medium", "full strength"},
         cigaretteSize |-> {"king size", "super king size", "slims"}],
     cigars |->
        [vitola |-> {"robusto", "churchill", "toro", "corona", "panetela"},
         origin |-> {"cuba", "nicaragua", "dominican republic", "honduras"},
         wrapperColor |-> {"natural", "claro", "colorado", "maduro"}],
     ryo |->
        [leafOrigin |-> {"virginia", "burley", "oriental", "latakia"},
         strength |-> {"medium", "extra strong"}],
     accessories |->
        [accessoryType |-> {"lighters", "cutters", "cases", "humidors", "ashtrays",
                            "pipes", "gift sets"},
         material |-> {"gold plated", "sterling silver", "leather", "walnut wood",
                       "stainless steel"}]]

NoAttributes == [field \in {} |-> ""]

\* Categories outside the table have no attribute fields.
getAttributeFields(name) ==
    IF name \in DOMAIN PRODUCT_ATTRIBUTE_SCHEMA
    THEN PRODUCT_ATTRIBUTE_SCHEMA[name] ELSE NoAttributes

isProductCategory(name) == name # "brands"

\* Every field of the category is given one of its options.
AttributesComplete(name, given) ==
    \A field \in DOMAIN getAttributeFields(name) :
        /\ field \in DOMAIN given
        /\ given[field] \in getAttributeFields(name)[field]

\* The fields of the category, whatever else was sent; nothing when it has none.
sanitizeAttributes(name, given) ==
    [field \in DOMAIN getAttributeFields(name) |-> given[field]]

-------------------------------------------------------------------------------
(* Listings *)

ceilDiv(n, d) == (n + d - 1) \div d

largest(a, b) == IF a >= b THEN a ELSE b
smallest(a, b) == IF a <= b THEN a ELSE b

\* The page and the limit a query asks for; 0 stands for none given.
clampPage(page) == largest(1, page)
clampLimit(limit, default) == largest(1, smallest(100, IF limit = 0 THEN default ELSE limit))

Meta(page, limit, total) ==
    LET totalPages == largest(1, ceilDiv(total, limit)) IN
    [page |-> page, limit |-> limit, total |-> total, totalPages |-> totalPages,
     hasNextPage |-> page < totalPages /\ total > 0, hasPrevPage |-> page > 1]

\* The products the filter of a listing selects. A query is a record: the
\* category's name or "" for any, a set of brand ids or {} for any, the options
\* chosen per attribute, the price range, and whether only active products are
\* listed. An unknown category, or brands none of which is the category's,
\* select nothing.
Selected(db, query) ==
    LET ofCategory(c) == c \in DOMAIN db.categories /\ db.categories[c] = query.category
        chosen == {b \in query.brand \cap DOMAIN db.brands :
                     query.category # "" => ofCategory(db.brands[b])}
        fields == DOMAIN query.attributes \cap DOMAIN getAttributeFields(query.category)
    IN {p \in DOMAIN db.products :
          LET product == db.products[p] IN
          /\ query.activeOnly => product.isActive
          /\ query.category # "" => ofCategory(product.category)
          /\ query.brand # {} => product.brand \in chosen
          /\ \A field \in fields :
                /\ field \in DOMAIN product.attributes
                /\ product.attributes[field] \in query.attributes[field]
          /\ query.minPrice <= product.price /\ product.price <= query.maxPrice}

\* The orders in which the database may return the selected products: the
\* sort key decides, and nothing decides between products it does not tell apart.
Orders(db, selected, sort) ==
    LET n == Cardinality(selected)
        before(p, q) ==
            CASE sort = "priceAsc" -> db.products[p].price <= db.products[q].price
              [] sort = "priceDesc" -> db.products[p].price >= db.products[q].price
              [] OTHER -> TRUE
    IN {s \in [1..n -> selected] :
          \A i, j \in 1..n : i < j => s[i] # s[j] /\ before(s[i], s[j])}

\* Slip: skip counts from page, not from page - 1.
PageOf_SkipsOne(order, page, limit) ==
    SubSeq(order, page * limit + 1, smallest((page + 1) * limit, Len(order)))

\* skip((page - 1) * limit), limit(limit)
PageOf(order, page, limit) ==
    SubSeq(order, (page - 1) * limit + 1, smallest(page * limit, Len(order)))

\* The counts beside the filters of category c: per brand of the category, and
\* per option of its attributes, with the number of all its products.
buildFacets(db, c, activeOnly) ==
    LET listed == {p \in DOMAIN db.products : /\ db.products[p].category = c
                                              /\ activeOnly => db.products[p].isActive}
        offered == {b \in DOMAIN db.brands : db.brands[b] = c}
        fields == getAttributeFields(db.categories[c])
        having(field, option) ==
            {p \in listed : /\ field \in DOMAIN db.products[p].attributes
                            /\ db.products[p].attributes[field] = option}
    IN [total |-> Cardinality(listed),
        brand |-> [b \in offered |-> Cardinality({p \in listed : db.products[p].brand = b})],
        attribute |-> [field \in DOMAIN fields |->
                         [option \in fields[field] |-> Cardinality(having(field, option))]]]

\* What ProductService.list may answer: count and page are read in parallel
\* with nothing written in between.
list(db, query, page, limit) ==
    LET selected == Selected(db, query) IN
    {[data |-> PageOf(order, page, limit), meta |-> Meta(page, limit, Cardinality(selected))] :
        order \in Orders(db, selected, query.sort)}

\* The products counted beside each brand of a brand listing.
attachProductCounts(db, listedBrands, activeOnly) ==
    [b \in listedBrands |->
        Cardinality({p \in DOMAIN db.products : /\ db.products[p].brand = b
                                                /\ activeOnly => db.products[p].isActive})]
===============================================================================
