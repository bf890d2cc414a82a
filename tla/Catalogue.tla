------------------------------- MODULE Catalogue -------------------------------
(***************************************************************************)
(* Categories, brands and products as the administrators edit them:        *)
(* modules/category/category.service.ts, modules/brands/brand.service.ts   *)
(* and modules/products/product.service.ts with their collections.         *)
(*                                                                         *)
(* Nothing in the database ties a product to its brand and category: each  *)
(* request checks the references it relies on with reads of its own, and   *)
(* writes later. A request is a handler whose every read and write is a    *)
(* step; a save writes the paths in which the edited document differs from *)
(* the loaded one, and fails when the document is gone. A request that its *)
(* first read refuses changes nothing and is not a step.                   *)
(***************************************************************************)
EXTENDS CatalogueRules, FiniteSetsExt, TLC

CONSTANTS
    Category, Brand, Product,   \* the ids the collections can draw
    NoId,                       \* no document: the target of a create
    Handler,                    \* requests served at the same time
    Name,                       \* names an administrator gives a category
    Form,                       \* bound: the product forms sent
    Seed,                       \* the collections at the start
    MaxRequests                 \* bound: requests in a behaviour

VARIABLES
    categories,  \* categories[c]: the name, for each stored category
    brands,      \* brands[b]: the category a stored brand belongs to
    products,    \* products[p]: the stored product
    drawn,       \* ids that have been given to a document
    at,          \* at[h]: the call the handler awaits
    req,         \* req[h]: target, payload, loaded document, what it has read
    used,        \* requests begun so far
    raced,       \* history: documents written on a check that no longer held
    moved        \* history: products whose brand was given another category

collections == <<categories, brands, products>>
catalogueVars == <<collections, drawn, at, req, used, raced, moved>>

db == [categories |-> categories, brands |-> brands, products |-> products]

-------------------------------------------------------------------------------
(* Data *)

Step == {"idle", "category.insert", "category.exists", "category.save",
         "category.count", "category.delete",
         "brand.insert", "brand.category", "brand.save", "brand.count", "brand.delete",
         "product.category", "product.brand", "product.sku", "product.slug",
         "product.insert", "product.save", "product.delete"}

\* Any slug "base" or "base-n" of a name.
Slug == {f.name : f \in Form} \X Nat

\* Of a brand only its category matters here.
BrandDoc == Category

\* What a category may be called, and what its products may be stored with.
CategoryName == Name \cup {Seed.categories[c] : c \in DOMAIN Seed.categories}
Attributes ==
    UNION {{sanitizeAttributes(name, f.attributes) :
               f \in {g \in Form : AttributesComplete(name, g.attributes)}} :
           name \in CategoryName}

ProductDoc == [category : Category, brand : Brand, sku : {f.sku : f \in Form},
               slug : Slug, price : {f.price : f \in Form},
               stockQty : Int, isActive : BOOLEAN, attributes : Attributes]

\* The collections start with documents whose references are there and fit, and whose
\* attributes are those of the category.
ASSUME CatalogueAssumption ==
    /\ NoId \notin Category \cup Brand \cup Product
    /\ MaxRequests \in Nat
    /\ \A f \in Form : /\ f.category \in Category /\ f.brand \in Brand
                       /\ f.price \in Nat /\ f.stockQty \in Nat /\ f.isActive \in BOOLEAN
    /\ IsFiniteSet(DOMAIN Seed.brands) /\ IsFiniteSet(DOMAIN Seed.products)
    /\ DOMAIN Seed.categories \subseteq Category
    /\ \A b \in DOMAIN Seed.brands : b \in Brand /\ Seed.brands[b] \in DOMAIN Seed.categories
    /\ \A p \in DOMAIN Seed.products :
          /\ p \in Product /\ Seed.products[p] \in ProductDoc
          /\ Seed.products[p].category \in DOMAIN Seed.categories
          /\ Seed.products[p].brand \in DOMAIN Seed.brands
          /\ Seed.brands[Seed.products[p].brand] = Seed.products[p].category
          /\ AttributesComplete(Seed.categories[Seed.products[p].category],
                                Seed.products[p].attributes)

IdleRequest == [id |-> NoId, form |-> NoId, base |-> NoId, name |-> "", slug |-> 0, todo |-> {}]

with(f, x, value) == [y \in DOMAIN f \cup {x} |-> IF y = x THEN value ELSE f[y]]
without(f, x) == [y \in DOMAIN f \ {x} |-> f[y]]
fresh(ids) == ids \ drawn

CatalogueInit ==
    /\ categories = Seed.categories
    /\ brands = Seed.brands
    /\ products = Seed.products
    /\ drawn = DOMAIN Seed.categories \cup DOMAIN Seed.brands \cup DOMAIN Seed.products
    /\ at = [h \in Handler |-> "idle"]
    /\ req = [h \in Handler |-> IdleRequest]
    /\ used = 0
    /\ raced = {}
    /\ moved = {}

\* A request begins: its first read has let it pass.
Accept(h, step, request) ==
    /\ at[h] = "idle"
    /\ used < MaxRequests
    /\ used' = used + 1
    /\ at' = [at EXCEPT ![h] = step]
    /\ req' = [req EXCEPT ![h] = request]

GoTo(h, step) == at' = [at EXCEPT ![h] = step] /\ UNCHANGED <<req, used>>

\* The request is answered, with success or with an error.
Answer(h) ==
    /\ at' = [at EXCEPT ![h] = "idle"]
    /\ req' = [req EXCEPT ![h] = IdleRequest]
    /\ UNCHANGED used

\* The read lets the request pass to its next step, or refuses it.
Continue(h, passes, step) == IF passes THEN GoTo(h, step) ELSE Answer(h)

Reading == UNCHANGED <<collections, drawn, raced, moved>>

\* Slip: save() writes the whole form.
SavedPaths_All(stored, base, edit) == edit

\* save() of an edited document: only the paths that were changed are written.
SavedPaths(stored, base, edit) ==
    [path \in DOMAIN stored |-> IF edit[path] = base[path] THEN stored[path] ELSE edit[path]]

-------------------------------------------------------------------------------
(* Categories *)

NameTaken(name, except) ==
    \E c \in DOMAIN categories \ {except} : categories[c] = name

CreateCategory(h, name) ==
    /\ ~isLockedCategoryName(name)
    /\ ~NameTaken(name, NoId)
    /\ Accept(h, "category.insert", [IdleRequest EXCEPT !.form = [name |-> name]])
    /\ Reading

\* The unique index refuses a name that has been taken meanwhile.
InsertCategory(h, c) ==
    LET name == req[h].form.name IN
    /\ at[h] = "category.insert"
    /\ c \in fresh(Category)
    /\ IF NameTaken(name, NoId) THEN UNCHANGED <<categories, drawn>>
       ELSE categories' = with(categories, c, name) /\ drawn' = drawn \cup {c}
    /\ Answer(h)
    /\ UNCHANGED <<brands, products, raced, moved>>

\* Slip: only the present name is checked against the locked ones.
UpdateCategory_AnyName(h, c, name) ==
    /\ c \in DOMAIN categories
    /\ ~isLockedCategoryName(categories[c])
    /\ Accept(h, "category.exists",
              [IdleRequest EXCEPT !.id = c, !.form = [name |-> name],
                                   !.base = [name |-> categories[c]]])
    /\ Reading

UpdateCategory(h, c, name) ==
    /\ c \in DOMAIN categories
    /\ ~isLockedCategoryName(categories[c])
    /\ ~isLockedCategoryName(name)
    /\ Accept(h, "category.exists",
              [IdleRequest EXCEPT !.id = c, !.form = [name |-> name],
                                   !.base = [name |-> categories[c]]])
    /\ Reading

UpdateCategoryExists(h) ==
    /\ at[h] = "category.exists"
    /\ Continue(h, ~NameTaken(req[h].form.name, req[h].id), "category.save")
    /\ Reading

SaveCategory(h) ==
    LET r == req[h] IN
    /\ at[h] = "category.save"
    /\ categories' =
         IF r.id \in DOMAIN categories /\ r.form # r.base /\ ~NameTaken(r.form.name, r.id)
         THEN [categories EXCEPT ![r.id] = r.form.name] ELSE categories
    /\ Answer(h)
    /\ UNCHANGED <<brands, products, drawn, raced, moved>>

RemoveCategory(h, c) ==
    /\ c \in DOMAIN categories
    /\ ~isLockedCategoryName(categories[c])
    /\ Accept(h, "category.count", [IdleRequest EXCEPT !.id = c, !.todo = {"products", "brands"}])
    /\ Reading

\* The two counts run in parallel.
CountInCategory(h, what) ==
    LET r == req[h]
        found == IF what = "products" THEN \E p \in DOMAIN products : products[p].category = r.id
                 ELSE \E b \in DOMAIN brands : brands[b] = r.id
    IN /\ at[h] = "category.count" /\ what \in r.todo
       /\ IF found THEN Answer(h)
          ELSE /\ at' = [at EXCEPT ![h] = IF r.todo = {what} THEN "category.delete" ELSE @]
               /\ req' = [req EXCEPT ![h].todo = @ \ {what}]
               /\ UNCHANGED used
       /\ Reading

DeleteCategory(h) ==
    /\ at[h] = "category.delete"
    /\ categories' = without(categories, req[h].id)
    /\ Answer(h)
    /\ UNCHANGED <<brands, products, drawn, raced, moved>>

\* A removal of category c has counted what is about to be written.
CategoryLeaving(c, what) ==
    \/ c \notin DOMAIN categories
    \/ \E g \in Handler : /\ at[g] \in {"category.count", "category.delete"}
                          /\ req[g].id = c /\ what \notin req[g].todo

-------------------------------------------------------------------------------
(* Brands *)

CreateBrand(h, c) ==
    /\ c \in DOMAIN categories
    /\ Accept(h, "brand.insert", [IdleRequest EXCEPT !.form = [category |-> c]])
    /\ Reading

InsertBrand(h, b) ==
    LET c == req[h].form.category IN
    /\ at[h] = "brand.insert"
    /\ b \in fresh(Brand)
    /\ brands' = with(brands, b, c)
    /\ drawn' = drawn \cup {b}
    /\ raced' = IF CategoryLeaving(c, "brands") THEN raced \cup {b} ELSE raced
    /\ Answer(h)
    /\ UNCHANGED <<categories, products, moved>>

UpdateBrand(h, b, c) ==
    /\ b \in DOMAIN brands
    /\ Accept(h, "brand.category", [IdleRequest EXCEPT !.id = b, !.form = [category |-> c],
                                                    !.base = [category |-> brands[b]]])
    /\ Reading

UpdateBrandCategory(h) ==
    /\ at[h] = "brand.category"
    /\ Continue(h, req[h].form.category \in DOMAIN categories, "brand.save")
    /\ Reading

\* Its products keep the category they were given.
SaveBrand(h) ==
    LET r == req[h]
        writes == r.id \in DOMAIN brands /\ r.form # r.base
    IN /\ at[h] = "brand.save"
       /\ brands' = IF writes THEN [brands EXCEPT ![r.id] = r.form.category] ELSE brands
       /\ raced' = IF writes /\ CategoryLeaving(r.form.category, "brands")
                   THEN raced \cup {r.id} ELSE raced
       /\ moved' = IF writes THEN moved \cup {p \in DOMAIN products : products[p].brand = r.id}
                   ELSE moved
       /\ Answer(h)
       /\ UNCHANGED <<categories, products, drawn>>

DeleteBrandLoad(h, b) ==
    /\ b \in DOMAIN brands
    /\ Accept(h, "brand.count", [IdleRequest EXCEPT !.id = b])
    /\ Reading

\* Slip: only products on sale are counted.
CountOfBrand_ActiveOnly(h) ==
    LET inUse == \E p \in DOMAIN products : products[p].brand = req[h].id /\ products[p].isActive
    IN /\ at[h] = "brand.count"
       /\ Continue(h, ~inUse, "brand.delete")
       /\ Reading

CountOfBrand(h) ==
    LET inUse == \E p \in DOMAIN products : products[p].brand = req[h].id
    IN /\ at[h] = "brand.count"
       /\ Continue(h, ~inUse, "brand.delete")
       /\ Reading

DeleteBrand(h) ==
    /\ at[h] = "brand.delete"
    /\ brands' = without(brands, req[h].id)
    /\ Answer(h)
    /\ UNCHANGED <<categories, products, drawn, raced, moved>>

-------------------------------------------------------------------------------
(* Products *)

CategoryTakes(c) == c \in DOMAIN categories /\ isProductCategory(categories[c])

\* The name read here decides the attributes that are stored later.
ReadCategory(form, base, id) ==
    [IdleRequest EXCEPT !.id = id, !.form = form, !.base = base,
                        !.name = categories[form.category]]

CreateProduct(h, form) ==
    /\ CategoryTakes(form.category)
    /\ Accept(h, "product.brand", ReadCategory(form, NoId, NoId))
    /\ Reading

UpdateProduct(h, p, form) ==
    /\ p \in DOMAIN products
    /\ Accept(h, "product.category",
              [IdleRequest EXCEPT !.id = p, !.form = form, !.base = products[p]])
    /\ Reading

UpdateProductCategory(h) ==
    LET r == req[h] IN
    /\ at[h] = "product.category"
    /\ IF CategoryTakes(r.form.category)
       THEN /\ at' = [at EXCEPT ![h] = "product.brand"]
            /\ req' = [req EXCEPT ![h] = ReadCategory(r.form, r.base, r.id)]
            /\ UNCHANGED used
       ELSE Answer(h)
    /\ Reading

\* The brand exists and belongs to the product's category.
CheckBrand(h) ==
    LET form == req[h].form IN
    /\ at[h] = "product.brand"
    /\ Continue(h, form.brand \in DOMAIN brands /\ brands[form.brand] = form.category,
                "product.sku")
    /\ Reading

SkuTaken(sku, except) == \E p \in DOMAIN products \ {except} : products[p].sku = sku
SlugTaken(slug, except) == \E p \in DOMAIN products \ {except} : products[p].slug = slug

CheckSku(h) ==
    /\ at[h] = "product.sku"
    /\ Continue(h, ~SkuTaken(req[h].form.sku, req[h].id), "product.slug")
    /\ Reading

\* uniqueSlug: base, base-1, base-2, ... until one is free; the attributes are
\* looked at last.
FindSlug(h) ==
    LET r == req[h] IN
    /\ at[h] = "product.slug"
    /\ IF SlugTaken(<<r.form.name, r.slug>>, r.id)
       THEN req' = [req EXCEPT ![h].slug = @ + 1] /\ UNCHANGED <<at, used>>
       ELSE Continue(h, AttributesComplete(r.name, r.form.attributes),
                     IF r.id = NoId THEN "product.insert" ELSE "product.save")
    /\ Reading

\* The document a form becomes.
Filled(r) ==
    [category |-> r.form.category, brand |-> r.form.brand, sku |-> r.form.sku,
     slug |-> <<r.form.name, r.slug>>, price |-> r.form.price,
     stockQty |-> r.form.stockQty, isActive |-> r.form.isActive,
     attributes |-> sanitizeAttributes(r.name, r.form.attributes)]

\* What the product refers to has changed since it was checked, or is about to.
ReferenceLost(doc) ==
    \/ CategoryLeaving(doc.category, "products")
    \/ doc.brand \notin DOMAIN brands
    \/ brands[doc.brand] # doc.category
    \/ \E g \in Handler : at[g] = "brand.delete" /\ req[g].id = doc.brand

\* The unique indexes refuse a sku or a slug that has been taken meanwhile.
InsertProduct(h, p) ==
    LET doc == Filled(req[h]) IN
    /\ at[h] = "product.insert"
    /\ p \in fresh(Product)
    /\ IF SkuTaken(doc.sku, NoId) \/ SlugTaken(doc.slug, NoId)
       THEN UNCHANGED <<products, drawn, raced>>
       ELSE /\ products' = with(products, p, doc)
            /\ drawn' = drawn \cup {p}
            /\ raced' = IF ReferenceLost(doc) THEN raced \cup {p} ELSE raced
    /\ Answer(h)
    /\ UNCHANGED <<categories, brands, moved>>

\* Two updates of one product mix when each changed what the other had loaded.
Mixed(stored, base) ==
    \/ stored.category # base.category \/ stored.brand # base.brand
    \/ stored.attributes # base.attributes

Repointed(stored, doc) == stored.category # doc.category \/ stored.brand # doc.brand

SaveProduct(h) ==
    LET r == req[h]
        p == r.id
        doc == SavedPaths(products[p], r.base, Filled(r))
    IN /\ at[h] = "product.save"
       /\ IF p \notin DOMAIN products \/ SkuTaken(doc.sku, p) \/ SlugTaken(doc.slug, p)
          THEN UNCHANGED <<products, raced>>
          ELSE /\ products' = [products EXCEPT ![p] = doc]
               /\ raced' = IF \/ Mixed(products[p], r.base)
                              \/ Repointed(products[p], doc) /\ ReferenceLost(doc)
                           THEN raced \cup {p} ELSE raced
       /\ Answer(h)
       /\ UNCHANGED <<categories, brands, drawn, moved>>

DeleteProductLoad(h, p) ==
    /\ p \in DOMAIN products
    /\ Accept(h, "product.delete", [IdleRequest EXCEPT !.id = p])
    /\ Reading

\* Nothing looks for the carts, wishlists, reviews and orders that name it.
DeleteProduct(h) ==
    /\ at[h] = "product.delete"
    /\ products' = without(products, req[h].id)
    /\ Answer(h)
    /\ UNCHANGED <<categories, brands, drawn, raced, moved>>

-------------------------------------------------------------------------------
CatalogueStep(h) ==
    \/ \E name \in Name : CreateCategory(h, name)
    \/ \E c \in Category : InsertCategory(h, c)
    \/ \E c \in Category, name \in Name : UpdateCategory(h, c, name)
    \/ UpdateCategoryExists(h)
    \/ SaveCategory(h)
    \/ \E c \in Category : RemoveCategory(h, c)
    \/ \E what \in {"products", "brands"} : CountInCategory(h, what)
    \/ DeleteCategory(h)
    \/ \E c \in Category : CreateBrand(h, c)
    \/ \E b \in Brand : InsertBrand(h, b)
    \/ \E b \in Brand, c \in Category : UpdateBrand(h, b, c)
    \/ UpdateBrandCategory(h)
    \/ SaveBrand(h)
    \/ \E b \in Brand : DeleteBrandLoad(h, b)
    \/ CountOfBrand(h)
    \/ DeleteBrand(h)
    \/ \E form \in Form : CreateProduct(h, form)
    \/ \E p \in Product, form \in Form : UpdateProduct(h, p, form)
    \/ UpdateProductCategory(h)
    \/ CheckBrand(h)
    \/ CheckSku(h)
    \/ FindSlug(h)
    \/ \E p \in Product : InsertProduct(h, p)
    \/ SaveProduct(h)
    \/ \E p \in Product : DeleteProductLoad(h, p)
    \/ DeleteProduct(h)

-------------------------------------------------------------------------------
(* Properties *)

CatalogueTypeOK ==
    /\ \A c \in DOMAIN categories : c \in drawn \cap Category /\ categories[c] \in CategoryName
    /\ \A b \in DOMAIN brands : b \in drawn \cap Brand /\ brands[b] \in BrandDoc
    /\ \A p \in DOMAIN products : p \in drawn \cap Product /\ products[p] \in ProductDoc
    /\ used \in 0..MaxRequests

\* Deleting checks that nothing refers to a category or a brand, and creating
\* checks that what it refers to is there; with requests in between, a brand's
\* category or a product's brand and category are missing only when the write
\* itself overlapped the removal or another update of the same product.
ReferencesHold ==
    /\ \A b \in DOMAIN brands \ raced : brands[b] \in DOMAIN categories
    /\ \A p \in DOMAIN products \ raced :
          /\ products[p].category \in DOMAIN categories
          /\ products[p].brand \in DOMAIN brands

\* The counts beside the filters of a category add up to its products: every
\* product belongs to one of the category's own brands, and carries exactly one
\* of the options of each attribute of the category. The list of the brands counts
\* the same products beside each of them. Renaming categories, moving brands and
\* editing products keeps it so, except for the products whose brand an
\* administrator has moved and those written on a check that had lapsed.
FacetsAddUp ==
    \A c \in DOMAIN categories :
        LET facets == buildFacets(db, c, FALSE)
            listed == {p \in DOMAIN products : \/ products[p].category = c
                                               \/ products[p].brand \in DOMAIN facets.brand}
            sum(counts) == MapThenSumSet(LAMBDA x : counts[x], DOMAIN counts)
        IN listed \cap (raced \cup moved) = {} =>
             /\ sum(facets.brand) = facets.total
             /\ facets.brand = attachProductCounts(db, DOMAIN facets.brand, FALSE)
             /\ \A field \in DOMAIN facets.attribute :
                   sum(facets.attribute[field]) = facets.total

\* A customer who turns the pages of a listing sorted by price, each answered
\* from a query of its own, sees every selected product exactly once and is told
\* of a next page until then, as long as no two of them cost the same.
PagesPartition ==
    \A limit \in 1..2, sort \in {"priceAsc", "priceDesc"} :
        LET query == [category |-> "", brand |-> {}, attributes |-> NoAttributes,
                      minPrice |-> 0, maxPrice |-> 100, activeOnly |-> TRUE, sort |-> sort]
            selected == Selected(db, query)
            pages == 1..largest(1, ceilDiv(Cardinality(selected), limit))
            answer(k) == CHOOSE a \in list(db, query, k, limit) : TRUE
            shown(k) == {answer(k).data[i] : i \in DOMAIN answer(k).data}
        IN (\A p, q \in selected : products[p].price = products[q].price => p = q) =>
             /\ UNION {shown(k) : k \in pages} = selected
             /\ \A j, k \in pages : j # k => shown(j) \cap shown(k) = {}
             /\ \A k \in pages : answer(k).meta.hasNextPage <=> k + 1 \in pages
===============================================================================
