---------------------------- MODULE StorefrontProofs ----------------------------
(***************************************************************************)
(* For every set of handlers, customers and documents, and every number of *)
(* requests: the types of the catalogue and of what customers keep, the    *)
(* references between documents, the stock, the carts, the lines of a      *)
(* checkout, the pages of a listing and the counts beside its filters.     *)
(***************************************************************************)
EXTENDS Storefront, FiniteSetTheorems, SequenceTheorems, WellFoundedInduction, TLAPS

-------------------------------------------------------------------------------
(* Types *)

Fields == {"id", "form", "base", "name", "slug", "todo"}
ProductStep == {"product.category", "product.brand", "product.sku", "product.slug",
                "product.insert", "product.save"}
CartStep == {"cart.line", "cart.write", "cart.set"}
AnyStep == Step \cup ShopStep

\* What a request that waits for a call carries.
RequestOK(step, r) ==
    /\ DOMAIN r = Fields
    /\ step \in {"category.insert", "category.exists", "category.save"} => r.form.name \in Name
    /\ step \in {"brand.insert", "brand.category", "brand.save"} => r.form.category \in Category
    /\ step \in ProductStep =>
          /\ r.form \in Form /\ r.slug \in Nat
          /\ r.id = NoId \/ (r.id \in Product /\ r.base \in ProductDoc)
    /\ step \in ProductStep \ {"product.category"} => r.name \in CategoryName
    /\ step \in {"product.insert", "product.save"} => AttributesComplete(r.name, r.form.attributes)
    /\ step \in {"product.category", "product.save"} => r.id \in Product
    /\ step \in CartStep => /\ r.id \in Product /\ r.form.user \in Customer
                            /\ r.form.qty \in CartQty
    /\ step = "cart.write" => r.base.qty \in Nat
    /\ step = "wish.write" => r.id \in Product /\ r.form.user \in Customer
    /\ step = "review.write" => /\ r.id \in Product /\ r.form.user \in Customer
                                /\ r.form.qty \in Rating
    /\ step = "checkout.clear" =>
          /\ r.form.user \in Customer
          /\ \A p \in DOMAIN r.base.lines : p \in Product /\ r.base.lines[p] \in CartQty

Requests ==
    /\ at \in [Handler -> AnyStep] /\ DOMAIN req = Handler
    /\ \A h \in Handler : RequestOK(at[h], req[h])
    /\ used \in 0..MaxRequests

\* A collection keeps documents of a kind under ids that were drawn for it.
Keeps(collection, given, ids, values) ==
    \A x \in DOMAIN collection : x \in given \cap ids /\ collection[x] \in values

Documents ==
    /\ Keeps(categories, drawn, Category, CategoryName)
    /\ Keeps(brands, drawn, Brand, BrandDoc)
    /\ Keeps(products, drawn, Product, ProductDoc)

Belongings ==
    /\ DOMAIN cart = Customer
    /\ \A u \in Customer : \A p \in DOMAIN cart[u] : p \in Product /\ cart[u][p] \in CartQty
    /\ wishlist \subseteq WishDoc
    /\ reviews \subseteq ReviewDoc
    /\ \A line \in unsold : line \in Product \X CartQty
    /\ ordered \in [Customer -> BOOLEAN]
    /\ DOMAIN ledger = DOMAIN products

TypeInv == Requests /\ Documents /\ Belongings

LEMMA TypeInvOK == TypeInv => TypeOK
BY DEF TypeInv, Requests, Documents, Keeps, Belongings, TypeOK, CatalogueTypeOK, AnyStep

-------------------------------------------------------------------------------
(* How handlers move *)

\* Only h moves, and waits for step now.
MovedTo(h, step) ==
    /\ at'[h] = step
    /\ \A g \in Handler \ {h} : at'[g] = at[g] /\ req'[g] = req[g]

LEMMA Accepting ==
    ASSUME Requests, NEW h \in Handler, NEW step \in AnyStep, NEW request,
           RequestOK(step, request), Accept(h, step, request)
    PROVE  Requests' /\ MovedTo(h, step) /\ req'[h] = request /\ at[h] = "idle"
<1>1. /\ at[h] = "idle" /\ used < MaxRequests /\ used' = used + 1
      /\ at' = [at EXCEPT ![h] = step] /\ req' = [req EXCEPT ![h] = request]
  BY DEF Accept
<1>2. /\ at' \in [Handler -> AnyStep] /\ DOMAIN req' = Handler
      /\ MovedTo(h, step) /\ req'[h] = request
  BY <1>1 DEF Requests, MovedTo
<1>3. \A g \in Handler : RequestOK(at'[g], req'[g])
  BY <1>2 DEF Requests, MovedTo
<1>4. used' \in 0..MaxRequests
  BY <1>1, CatalogueAssumption DEF Requests
<1> QED
  BY <1>1, <1>2, <1>3, <1>4 DEF Requests

LEMMA Going ==
    ASSUME Requests, NEW h \in Handler, NEW step \in AnyStep, NEW request,
           RequestOK(step, request),
           at' = [at EXCEPT ![h] = step], UNCHANGED used,
           req' = [req EXCEPT ![h] = request] \/ (UNCHANGED req /\ request = req[h])
    PROVE  Requests' /\ MovedTo(h, step) /\ req'[h] = request
<1>1. /\ at' \in [Handler -> AnyStep] /\ DOMAIN req' = Handler
      /\ MovedTo(h, step) /\ req'[h] = request
  BY DEF Requests, MovedTo
<1>2. \A g \in Handler : RequestOK(at'[g], req'[g])
  BY <1>1 DEF Requests, MovedTo
<1> QED
  BY <1>1, <1>2 DEF Requests

LEMMA IdleOK == RequestOK("idle", IdleRequest) /\ "idle" \in AnyStep
  BY DEF RequestOK, IdleRequest, Fields, ProductStep, CartStep, AnyStep, Step

LEMMA Answering ==
    ASSUME Requests, NEW h \in Handler, Answer(h)
    PROVE  Requests' /\ MovedTo(h, "idle")
BY IdleOK, Going DEF Answer

LEMMA Continuing ==
    ASSUME Requests, NEW h \in Handler, NEW passes, NEW step \in AnyStep,
           passes => RequestOK(step, req[h]), Continue(h, passes, step)
    PROVE  /\ Requests'
           /\ (passes /\ MovedTo(h, step) /\ req'[h] = req[h]) \/ (~passes /\ MovedTo(h, "idle"))
<1>1. CASE passes
  <2>1. at' = [at EXCEPT ![h] = step] /\ UNCHANGED <<req, used>>
    BY <1>1 DEF Continue, GoTo
  <2> QED
    BY <1>1, <2>1, Going
<1>2. CASE ~passes
  BY <1>2, Answering DEF Continue
<1> QED
  BY <1>1, <1>2

-------------------------------------------------------------------------------
(* The administrators' requests *)

\* What the records of requests hold.
LEMMA RequestFields ==
    /\ DOMAIN IdleRequest = Fields
    /\ IdleRequest.id = NoId /\ IdleRequest.slug = 0
    /\ \A i, f, b, n : LET r == [IdleRequest EXCEPT !.id = i, !.form = f, !.base = b, !.name = n]
                       IN /\ DOMAIN r = Fields /\ r.id = i /\ r.form = f /\ r.base = b
                          /\ r.name = n /\ r.slug = 0
BY DEF IdleRequest, Fields

\* The steps of an administrator's request, by what it edits.
CategoryStep(h) ==
    \/ \E name \in Name : CreateCategory(h, name)
    \/ \E c \in Category : InsertCategory(h, c)
    \/ \E c \in Category, name \in Name : UpdateCategory(h, c, name)
    \/ UpdateCategoryExists(h)
    \/ SaveCategory(h)
    \/ \E c \in Category : RemoveCategory(h, c)
    \/ \E what \in {"products", "brands"} : CountInCategory(h, what)
    \/ DeleteCategory(h)

BrandStep(h) ==
    \/ \E c \in Category : CreateBrand(h, c)
    \/ \E b \in Brand : InsertBrand(h, b)
    \/ \E b \in Brand, c \in Category : UpdateBrand(h, b, c)
    \/ UpdateBrandCategory(h)
    \/ SaveBrand(h)
    \/ \E b \in Brand : DeleteBrandLoad(h, b)
    \/ CountOfBrand(h)
    \/ DeleteBrand(h)

EditStep(h) ==
    \/ \E form \in Form : CreateProduct(h, form)
    \/ \E p \in Product, form \in Form : UpdateProduct(h, p, form)
    \/ UpdateProductCategory(h)
    \/ CheckBrand(h)
    \/ CheckSku(h)
    \/ FindSlug(h)
    \/ \E p \in Product : InsertProduct(h, p)
    \/ SaveProduct(h)
    \/ \E p \in Product : DeleteProductLoad(h, p)
    \/ DeleteProduct(h)

Served(h) == Requests' /\ \E step \in Step : MovedTo(h, step)

LEMMA CategoryRequests ==
    ASSUME Requests, Documents, NEW h \in Handler, CategoryStep(h)
    PROVE  Served(h)
<1> USE DEF AnyStep, Step, Served
<1>1. ASSUME NEW name \in Name, CreateCategory(h, name) PROVE Served(h)
  <2> DEFINE r == [IdleRequest EXCEPT !.form = [name |-> name]]
  <2>1. Accept(h, "category.insert", r)
    BY <1>1 DEF CreateCategory
  <2>2. RequestOK("category.insert", r)
    BY DEF RequestOK, IdleRequest, Fields, ProductStep, CartStep
  <2> HIDE DEF r
  <2> QED
    BY <2>1, <2>2, Accepting
<1>2. ASSUME NEW c, InsertCategory(h, c) \/ SaveCategory(h) \/ DeleteCategory(h) PROVE Served(h)
  BY <1>2, Answering DEF InsertCategory, SaveCategory, DeleteCategory
<1>3. ASSUME NEW c \in Category, NEW name \in Name, UpdateCategory(h, c, name)
      PROVE  Served(h)
  <2> DEFINE r == [IdleRequest EXCEPT !.id = c, !.form = [name |-> name],
                                      !.base = [name |-> categories[c]]]
  <2>1. Accept(h, "category.exists", r)
    BY <1>3 DEF UpdateCategory
  <2>2. RequestOK("category.exists", r)
    BY DEF RequestOK, IdleRequest, Fields, ProductStep, CartStep
  <2> HIDE DEF r
  <2> QED
    BY <2>1, <2>2, Accepting
<1>4. CASE UpdateCategoryExists(h)
  <2>1. at[h] = "category.exists" /\ RequestOK(at[h], req[h])
    BY <1>4 DEF UpdateCategoryExists, Requests
  <2>2. RequestOK("category.save", req[h])
    BY <2>1 DEF RequestOK, ProductStep, CartStep
  <2>3. Continue(h, ~NameTaken(req[h].form.name, req[h].id), "category.save")
    BY <1>4 DEF UpdateCategoryExists
  <2> QED
    BY <2>2, <2>3, Continuing
<1>5. ASSUME NEW c \in Category, RemoveCategory(h, c) PROVE Served(h)
  <2> DEFINE r == [IdleRequest EXCEPT !.id = c, !.todo = {"products", "brands"}]
  <2>1. Accept(h, "category.count", r)
    BY <1>5 DEF RemoveCategory
  <2>2. RequestOK("category.count", r)
    BY DEF RequestOK, IdleRequest, Fields, ProductStep, CartStep
  <2> HIDE DEF r
  <2> QED
    BY <2>1, <2>2, Accepting
<1>6. ASSUME NEW what \in {"products", "brands"}, CountInCategory(h, what) PROVE Served(h)
  <2>1. CASE Answer(h)
    BY <2>1, Answering
  <2>2. CASE ~Answer(h)
    <3> DEFINE r == [req[h] EXCEPT !.todo = @ \ {what}]
               step == IF req[h].todo = {what} THEN "category.delete" ELSE "category.count"
    <3>1. /\ at[h] = "category.count" /\ UNCHANGED used
          /\ at' = [at EXCEPT ![h] = step]
      BY <1>6, <2>2 DEF CountInCategory
    <3>2. req' = [req EXCEPT ![h] = r]
      BY <1>6, <2>2 DEF CountInCategory
    <3>3. RequestOK(at[h], req[h])
      BY DEF Requests
    <3>4. RequestOK(step, r) /\ step \in Step
      BY <3>1, <3>3 DEF RequestOK, Fields, ProductStep, CartStep
    <3> HIDE DEF r, step
    <3> QED
      BY <3>1, <3>2, <3>4, Going
  <2> QED
    BY <2>1, <2>2
<1> QED
  BY <1>1, <1>2, <1>3, <1>4, <1>5, <1>6 DEF CategoryStep

LEMMA BrandRequests ==
    ASSUME Requests, Documents, NEW h \in Handler, BrandStep(h)
    PROVE  Served(h)
<1> USE DEF AnyStep, Step, Served
<1>1. ASSUME NEW c \in Category, CreateBrand(h, c) PROVE Served(h)
  <2> DEFINE r == [IdleRequest EXCEPT !.form = [category |-> c]]
  <2>1. Accept(h, "brand.insert", r)
    BY <1>1 DEF CreateBrand
  <2>2. RequestOK("brand.insert", r)
    BY DEF RequestOK, IdleRequest, Fields, ProductStep, CartStep
  <2> HIDE DEF r
  <2> QED
    BY <2>1, <2>2, Accepting
<1>2. ASSUME NEW b, InsertBrand(h, b) \/ SaveBrand(h) \/ DeleteBrand(h) PROVE Served(h)
  BY <1>2, Answering DEF InsertBrand, SaveBrand, DeleteBrand
<1>3. ASSUME NEW b \in Brand, NEW c \in Category, UpdateBrand(h, b, c) PROVE Served(h)
  <2> DEFINE r == [IdleRequest EXCEPT !.id = b, !.form = [category |-> c],
                                      !.base = [category |-> brands[b]]]
  <2>1. Accept(h, "brand.category", r)
    BY <1>3 DEF UpdateBrand
  <2>2. RequestOK("brand.category", r)
    BY DEF RequestOK, IdleRequest, Fields, ProductStep, CartStep
  <2> HIDE DEF r
  <2> QED
    BY <2>1, <2>2, Accepting
<1>4. CASE UpdateBrandCategory(h)
  <2>1. at[h] = "brand.category" /\ RequestOK(at[h], req[h])
    BY <1>4 DEF UpdateBrandCategory, Requests
  <2>2. RequestOK("brand.save", req[h])
    BY <2>1 DEF RequestOK, ProductStep, CartStep
  <2>3. Continue(h, req[h].form.category \in DOMAIN categories, "brand.save")
    BY <1>4 DEF UpdateBrandCategory
  <2> QED
    BY <2>2, <2>3, Continuing
<1>5. ASSUME NEW b \in Brand, DeleteBrandLoad(h, b) PROVE Served(h)
  <2> DEFINE r == [IdleRequest EXCEPT !.id = b]
  <2>1. Accept(h, "brand.count", r)
    BY <1>5 DEF DeleteBrandLoad
  <2>2. RequestOK("brand.count", r)
    BY DEF RequestOK, IdleRequest, Fields, ProductStep, CartStep
  <2> HIDE DEF r
  <2> QED
    BY <2>1, <2>2, Accepting
<1>6. CASE CountOfBrand(h)
  <2>1. at[h] = "brand.count" /\ RequestOK(at[h], req[h])
    BY <1>6 DEF CountOfBrand, Requests
  <2>2. RequestOK("brand.delete", req[h])
    BY <2>1 DEF RequestOK, ProductStep, CartStep
  <2>3. PICK passes : Continue(h, passes, "brand.delete")
    BY <1>6 DEF CountOfBrand
  <2> QED
    BY <2>2, <2>3, Continuing
<1> QED
  BY <1>1, <1>2, <1>3, <1>4, <1>5, <1>6 DEF BrandStep

LEMMA ProductRequests ==
    ASSUME Requests, Documents, NEW h \in Handler, EditStep(h)
    PROVE  Served(h)
<1> USE DEF AnyStep, Step, Served
<1> DEFINE r0 == req[h]
<1>0. RequestOK(at[h], r0)
  BY DEF Requests
<1>1. ASSUME NEW form \in Form, CreateProduct(h, form) PROVE Served(h)
  <2> DEFINE r == ReadCategory(form, NoId, NoId)
  <2>1. Accept(h, "product.brand", r) /\ form.category \in DOMAIN categories
    BY <1>1 DEF CreateProduct, CategoryTakes
  <2>2. RequestOK("product.brand", r)
    BY <2>1 DEF RequestOK, IdleRequest, ReadCategory, Fields, ProductStep, CartStep, Documents, Keeps
  <2> HIDE DEF r
  <2> QED
    BY <2>1, <2>2, Accepting
<1>2. ASSUME NEW p, InsertProduct(h, p) \/ SaveProduct(h) \/ DeleteProduct(h) PROVE Served(h)
  BY <1>2, Answering DEF InsertProduct, SaveProduct, DeleteProduct
<1>3. ASSUME NEW p \in Product, NEW form \in Form, UpdateProduct(h, p, form) PROVE Served(h)
  <2> DEFINE r == [IdleRequest EXCEPT !.id = p, !.form = form, !.base = products[p]]
  <2>1. Accept(h, "product.category", r) /\ p \in DOMAIN products
    BY <1>3 DEF UpdateProduct
  <2>2. RequestOK("product.category", r)
    BY <2>1 DEF RequestOK, IdleRequest, Fields, ProductStep, CartStep, Documents, Keeps
  <2> HIDE DEF r
  <2> QED
    BY <2>1, <2>2, Accepting
<1>4. CASE UpdateProductCategory(h)
  <2>1. CASE ~CategoryTakes(r0.form.category)
    BY <1>4, <2>1, Answering DEF UpdateProductCategory
  <2>2. CASE CategoryTakes(r0.form.category)
    <3> DEFINE r == ReadCategory(r0.form, r0.base, r0.id)
    <3>1. /\ at[h] = "product.category" /\ UNCHANGED used
          /\ at' = [at EXCEPT ![h] = "product.brand"] /\ req' = [req EXCEPT ![h] = r]
      BY <1>4, <2>2 DEF UpdateProductCategory
    <3>2. r0.form \in Form /\ r0.id \in Product /\ (r0.id = NoId \/ r0.base \in ProductDoc)
      BY <1>0, <3>1 DEF RequestOK, ProductStep
    <3>3. categories[r0.form.category] \in CategoryName
      BY <2>2 DEF CategoryTakes, Documents, Keeps
    <3>4. /\ DOMAIN r = Fields /\ r.id = r0.id /\ r.form = r0.form /\ r.base = r0.base
          /\ r.slug = 0 /\ r.name = categories[r0.form.category]
      BY DEF ReadCategory, IdleRequest, Fields
    <3> HIDE DEF r, r0
    <3>5. RequestOK("product.brand", r)
      BY <3>2, <3>3, <3>4 DEF RequestOK, ProductStep, CartStep
    <3> QED
      BY <3>1, <3>5, Going
  <2> QED
    BY <2>1, <2>2
<1>5. CASE CheckBrand(h)
  <2>1. at[h] = "product.brand"
    BY <1>5 DEF CheckBrand
  <2>2. RequestOK("product.sku", r0)
    BY <1>0, <2>1 DEF RequestOK, ProductStep, CartStep
  <2>3. PICK passes : Continue(h, passes, "product.sku")
    BY <1>5 DEF CheckBrand
  <2> QED
    BY <2>2, <2>3, Continuing
<1>6. CASE CheckSku(h)
  <2>1. at[h] = "product.sku"
    BY <1>6 DEF CheckSku
  <2>2. RequestOK("product.slug", r0)
    BY <1>0, <2>1 DEF RequestOK, ProductStep, CartStep
  <2>3. PICK passes : Continue(h, passes, "product.slug")
    BY <1>6 DEF CheckSku
  <2> QED
    BY <2>2, <2>3, Continuing
<1>7. CASE FindSlug(h)
  <2>1. at[h] = "product.slug"
    BY <1>7 DEF FindSlug
  <2>2. CASE SlugTaken(<<r0.form.name, r0.slug>>, r0.id)
    <3> DEFINE r == [r0 EXCEPT !.slug = @ + 1]
    <3>1. req' = [req EXCEPT ![h] = r] /\ UNCHANGED <<at, used>>
      BY <1>7, <2>2 DEF FindSlug
    <3>2. at' = [at EXCEPT ![h] = "product.slug"]
      BY <2>1, <3>1 DEF Requests
    <3>3. RequestOK("product.slug", r)
      BY <1>0, <2>1 DEF RequestOK, Fields, ProductStep, CartStep
    <3> HIDE DEF r
    <3> QED
      BY <3>1, <3>2, <3>3, Going
  <2>3. CASE ~SlugTaken(<<r0.form.name, r0.slug>>, r0.id)
    <3> DEFINE next == IF r0.id = NoId THEN "product.insert" ELSE "product.save"
               passes == AttributesComplete(r0.name, r0.form.attributes)
    <3>1. Continue(h, passes, next)
      BY <1>7, <2>3 DEF FindSlug
    <3>2. ASSUME passes PROVE RequestOK(next, r0)
      BY <1>0, <2>1, <3>2 DEF RequestOK, ProductStep, CartStep
    <3>3. next \in AnyStep /\ next \in Step
      OBVIOUS
    <3> HIDE DEF next, passes, r0
    <3> QED
      BY <3>1, <3>2, <3>3, Continuing DEF r0
  <2> QED
    BY <2>2, <2>3
<1>8. ASSUME NEW p \in Product, DeleteProductLoad(h, p) PROVE Served(h)
  <2> DEFINE r == [IdleRequest EXCEPT !.id = p]
  <2>1. Accept(h, "product.delete", r)
    BY <1>8 DEF DeleteProductLoad
  <2>2. RequestOK("product.delete", r)
    BY DEF RequestOK, IdleRequest, Fields, ProductStep, CartStep
  <2> HIDE DEF r
  <2> QED
    BY <2>1, <2>2, Accepting
<1> QED
  BY <1>1, <1>2, <1>3, <1>4, <1>5, <1>6, <1>7, <1>8 DEF EditStep

LEMMA CatalogueSteps ==
    ASSUME NEW h, CatalogueStep(h)
    PROVE  CategoryStep(h) \/ BrandStep(h) \/ EditStep(h)
BY DEF CatalogueStep, CategoryStep, BrandStep, EditStep

LEMMA CatalogueRequests ==
    ASSUME Requests, Documents, NEW h \in Handler, CatalogueStep(h)
    PROVE  Served(h)
BY CatalogueSteps, CategoryRequests, BrandRequests, ProductRequests

-------------------------------------------------------------------------------
(* What administrators write *)

LEMMA WithAndWithout ==
    ASSUME NEW f, NEW x, NEW value
    PROVE  /\ DOMAIN with(f, x, value) = DOMAIN f \cup {x}
           /\ with(f, x, value)[x] = value
           /\ \A y \in DOMAIN f \ {x} : with(f, x, value)[y] = f[y]
           /\ DOMAIN without(f, x) = DOMAIN f \ {x}
           /\ \A y \in DOMAIN f \ {x} : without(f, x)[y] = f[y]
BY DEF with, without

\* Storing a document of the kind and deleting one keep the others.
LEMMA KeepsWithout ==
    ASSUME NEW f, NEW given, NEW ids, NEW values, Keeps(f, given, ids, values), NEW x
    PROVE  Keeps(without(f, x), given, ids, values)
BY DEF Keeps, without

LEMMA KeepsMore ==
    ASSUME NEW f, NEW given, NEW ids, NEW values, Keeps(f, given, ids, values), NEW more
    PROVE  Keeps(f, given \cup more, ids, values)
BY DEF Keeps

LEMMA KeepsWith ==
    ASSUME NEW f, NEW given, NEW ids, NEW values, Keeps(f, given, ids, values),
           NEW x \in ids, NEW value \in values
    PROVE  Keeps(with(f, x, value), given \cup {x}, ids, values)
BY DEF Keeps, with

\* A complete form is stored as a document.
LEMMA FilledOK ==
    ASSUME NEW r, r.form \in Form, r.slug \in Nat, r.name \in CategoryName,
           AttributesComplete(r.name, r.form.attributes)
    PROVE  /\ Filled(r) \in ProductDoc
           /\ Filled(r).stockQty = r.form.stockQty
<1> DEFINE attributes == sanitizeAttributes(r.name, r.form.attributes)
           slug == <<r.form.name, r.slug>>
<1>1. /\ r.form.category \in Category /\ r.form.brand \in Brand
      /\ r.form.stockQty \in Nat /\ r.form.isActive \in BOOLEAN
  BY CatalogueAssumption
<1>2. attributes \in Attributes
  BY DEF Attributes
<1>3. slug \in Slug
  BY DEF Slug
<1>4. Filled(r) = [category |-> r.form.category, brand |-> r.form.brand, sku |-> r.form.sku,
                   slug |-> slug, price |-> r.form.price, stockQty |-> r.form.stockQty,
                   isActive |-> r.form.isActive, attributes |-> attributes]
  BY DEF Filled
<1> HIDE DEF attributes, slug
<1>5. Filled(r) \in ProductDoc
  BY <1>1, <1>2, <1>3, <1>4 DEF ProductDoc
<1>6. Filled(r).stockQty = r.form.stockQty
  BY <1>4
<1> QED
  BY <1>5, <1>6

\* A save of two documents writes a document, with the quantity of one of them.
LEMMA SavedPathsOK ==
    ASSUME NEW stored \in ProductDoc, NEW edit \in ProductDoc, NEW base
    PROVE  LET doc == SavedPaths(stored, base, edit) IN
           /\ doc \in ProductDoc
           /\ doc.stockQty = IF edit.stockQty = base.stockQty THEN stored.stockQty
                             ELSE edit.stockQty
           /\ doc.category = stored.category \/ doc.category = edit.category
           /\ doc.brand = stored.brand \/ doc.brand = edit.brand
<1> DEFINE doc == SavedPaths(stored, base, edit)
           Paths == {"category", "brand", "sku", "slug", "price", "stockQty", "isActive",
                     "attributes"}
           pick(path) == IF edit[path] = base[path] THEN stored[path] ELSE edit[path]
<1>1. DOMAIN stored = Paths
  BY DEF ProductDoc
<1>2. doc = [path \in Paths |-> pick(path)]
  BY <1>1 DEF SavedPaths
<1>3. doc = [category |-> pick("category"), brand |-> pick("brand"), sku |-> pick("sku"),
             slug |-> pick("slug"), price |-> pick("price"), stockQty |-> pick("stockQty"),
             isActive |-> pick("isActive"), attributes |-> pick("attributes")]
  BY <1>2
<1>4. /\ pick("category") \in Category /\ pick("brand") \in Brand
      /\ pick("sku") \in {f.sku : f \in Form} /\ pick("slug") \in Slug
      /\ pick("price") \in {f.price : f \in Form} /\ pick("stockQty") \in Int
      /\ pick("isActive") \in BOOLEAN /\ pick("attributes") \in Attributes
  BY DEF ProductDoc
<1>5. /\ pick("stockQty") = IF edit.stockQty = base.stockQty THEN stored.stockQty
                            ELSE edit.stockQty
      /\ pick("category") = stored.category \/ pick("category") = edit.category
      /\ pick("brand") = stored.brand \/ pick("brand") = edit.brand
  OBVIOUS
<1> HIDE DEF pick, doc
<1>6. doc \in ProductDoc
  BY <1>3, <1>4 DEF ProductDoc
<1>7. doc.stockQty = pick("stockQty") /\ doc.category = pick("category") /\ doc.brand = pick("brand")
  BY <1>3
<1> QED
  BY <1>5, <1>6, <1>7 DEF doc

LEMMA CatalogueDocuments ==
    ASSUME Requests, Documents, NEW h \in Handler, CatalogueStep(h)
    PROVE  Documents'
<1> DEFINE r == req[h]
<1>0. RequestOK(at[h], r)
  BY DEF Requests
<1>1. CASE UNCHANGED <<collections, drawn>>
  BY <1>1 DEF Documents, Keeps, collections
<1>2. ASSUME NEW c \in Category, InsertCategory(h, c) PROVE Documents'
  <2>1. CASE UNCHANGED <<categories, drawn>>
    BY <1>1, <1>2, <2>1 DEF InsertCategory, collections
  <2>2. CASE categories' = with(categories, c, r.form.name) /\ drawn' = drawn \cup {c}
    <3>1. r.form.name \in CategoryName
      BY <1>0, <1>2 DEF InsertCategory, RequestOK, CategoryName
    <3>2. UNCHANGED <<brands, products>>
      BY <1>2 DEF InsertCategory
    <3> QED
      BY <2>2, <3>1, <3>2, KeepsWith, KeepsMore DEF Documents
  <2> QED
    BY <1>2, <2>1, <2>2 DEF InsertCategory
<1>3. CASE SaveCategory(h)
  <2>1. r.form.name \in CategoryName
    BY <1>0, <1>3 DEF SaveCategory, RequestOK, CategoryName
  <2>2. /\ categories' = [categories EXCEPT ![r.id] = r.form.name] \/ categories' = categories
        /\ UNCHANGED <<brands, products, drawn>>
    BY <1>3 DEF SaveCategory
  <2> HIDE DEF r
  <2> QED
    BY <2>1, <2>2 DEF Documents, Keeps
<1>4. CASE DeleteCategory(h) \/ DeleteBrand(h) \/ DeleteProduct(h)
  <2>1. /\ categories' = categories \/ categories' = without(categories, r.id)
        /\ brands' = brands \/ brands' = without(brands, r.id)
        /\ products' = products \/ products' = without(products, r.id)
        /\ UNCHANGED drawn
    BY <1>4 DEF DeleteCategory, DeleteBrand, DeleteProduct
  <2>2. Keeps(categories, drawn, Category, CategoryName)'
    BY <2>1, KeepsWithout DEF Documents
  <2>3. Keeps(brands, drawn, Brand, BrandDoc)'
    BY <2>1, KeepsWithout DEF Documents
  <2>4. Keeps(products, drawn, Product, ProductDoc)'
    BY <2>1, KeepsWithout DEF Documents
  <2> QED
    BY <2>2, <2>3, <2>4 DEF Documents
<1>5. ASSUME NEW b \in Brand, InsertBrand(h, b) PROVE Documents'
  <2>1. r.form.category \in BrandDoc
    BY <1>0, <1>5 DEF InsertBrand, RequestOK, BrandDoc
  <2>2. /\ brands' = with(brands, b, r.form.category) /\ drawn' = drawn \cup {b}
        /\ UNCHANGED <<categories, products>>
    BY <1>5 DEF InsertBrand
  <2> QED
    BY <2>1, <2>2, KeepsWith, KeepsMore DEF Documents
<1>6. CASE SaveBrand(h)
  <2>1. r.form.category \in BrandDoc
    BY <1>0, <1>6 DEF SaveBrand, RequestOK, BrandDoc
  <2>2. /\ brands' = [brands EXCEPT ![r.id] = r.form.category] \/ brands' = brands
        /\ UNCHANGED <<categories, products, drawn>>
    BY <1>6 DEF SaveBrand
  <2> HIDE DEF r
  <2> QED
    BY <2>1, <2>2 DEF Documents, Keeps
<1>7. ASSUME NEW p \in Product, InsertProduct(h, p) PROVE Documents'
  <2>1. Filled(r) \in ProductDoc
    BY <1>0, <1>7, FilledOK DEF InsertProduct, RequestOK, ProductStep
  <2>2. /\ \/ products' = products /\ drawn' = drawn
           \/ products' = with(products, p, Filled(r)) /\ drawn' = drawn \cup {p}
        /\ UNCHANGED <<categories, brands>>
    BY <1>7 DEF InsertProduct
  <2> HIDE DEF r
  <2>3. Keeps(products, drawn, Product, ProductDoc)'
    BY <2>1, <2>2, KeepsWith DEF Documents
  <2>4. Keeps(categories, drawn, Category, CategoryName)'
    BY <2>2, KeepsMore DEF Documents
  <2>5. Keeps(brands, drawn, Brand, BrandDoc)'
    BY <2>2, KeepsMore DEF Documents
  <2> QED
    BY <2>3, <2>4, <2>5 DEF Documents
<1>8. CASE SaveProduct(h)
  <2> DEFINE doc == SavedPaths(products[r.id], r.base, Filled(r))
  <2>1. Filled(r) \in ProductDoc
    BY <1>0, <1>8, FilledOK DEF SaveProduct, RequestOK, ProductStep
  <2>2. /\ products' = products \/ (r.id \in DOMAIN products /\ products' = [products EXCEPT ![r.id] = doc])
        /\ UNCHANGED <<categories, brands, drawn>>
    BY <1>8 DEF SaveProduct
  <2>3. r.id \in DOMAIN products => doc \in ProductDoc
    BY <2>1, SavedPathsOK DEF Documents, Keeps
  <2> HIDE DEF r, doc
  <2> QED
    BY <2>2, <2>3 DEF Documents, Keeps
<1>9. CASE \/ \E name \in Name : CreateCategory(h, name)
           \/ \E c \in Category, name \in Name : UpdateCategory(h, c, name)
           \/ UpdateCategoryExists(h)
           \/ \E c \in Category : RemoveCategory(h, c)
           \/ \E what \in {"products", "brands"} : CountInCategory(h, what)
  BY <1>1, <1>9 DEF CreateCategory, UpdateCategory, UpdateCategoryExists, RemoveCategory,
                    CountInCategory, Reading
<1>10. CASE \/ \E c \in Category : CreateBrand(h, c)
            \/ \E b \in Brand, c \in Category : UpdateBrand(h, b, c)
            \/ UpdateBrandCategory(h)
            \/ \E b \in Brand : DeleteBrandLoad(h, b)
            \/ CountOfBrand(h)
  BY <1>1, <1>10 DEF CreateBrand, UpdateBrand, UpdateBrandCategory, DeleteBrandLoad,
                     CountOfBrand, Reading
<1>11. CASE \/ \E form \in Form : CreateProduct(h, form)
            \/ \E p \in Product, form \in Form : UpdateProduct(h, p, form)
            \/ UpdateProductCategory(h) \/ CheckBrand(h) \/ CheckSku(h) \/ FindSlug(h)
            \/ \E p \in Product : DeleteProductLoad(h, p)
  BY <1>1, <1>11 DEF CreateProduct, UpdateProduct, UpdateProductCategory, CheckBrand, CheckSku,
                     FindSlug, DeleteProductLoad, Reading
<1> QED
  BY <1>2, <1>3, <1>4, <1>5, <1>6, <1>7, <1>8, <1>9, <1>10, <1>11 DEF CatalogueStep

-------------------------------------------------------------------------------
(* The customers' requests *)

\* What the records of customers' requests hold.
LEMMA ShopRequestFields ==
    ASSUME NEW i, NEW u, NEW n, NEW b
    PROVE  LET r == [IdleRequest EXCEPT !.id = i, !.form = [user |-> u, qty |-> n], !.base = b]
               q == [IdleRequest EXCEPT !.id = i, !.form = [user |-> u, qty |-> n]]
               o == [IdleRequest EXCEPT !.form = [user |-> u, qty |-> n], !.base = b]
           IN /\ DOMAIN r = Fields /\ r.id = i /\ r.form.user = u /\ r.form.qty = n /\ r.base = b
              /\ DOMAIN q = Fields /\ q.id = i /\ q.form.user = u /\ q.form.qty = n
              /\ DOMAIN o = Fields /\ o.form.user = u /\ o.form.qty = n /\ o.base = b
BY DEF IdleRequest, Fields

LEMMA CustomerRequests ==
    ASSUME Requests, Belongings, NEW h \in Handler, NEW u \in Customer, CustomerStep(h, u)
    PROVE  /\ Requests' /\ at[h] = "idle"
           /\ \E step \in ShopStep : MovedTo(h, step)
<1> DEFINE Goal == /\ Requests' /\ at[h] = "idle"
                   /\ \E step \in ShopStep : MovedTo(h, step)
<1>0. /\ MaxQty \in Nat
      /\ {"cart.line", "cart.set", "wish.write", "review.write", "checkout.clear"} \subseteq AnyStep
      /\ {"cart.line", "cart.set", "wish.write", "review.write", "checkout.clear"} \subseteq ShopStep
  BY StorefrontAssumption DEF AnyStep, ShopStep
<1>1. ASSUME NEW p \in Product, NEW qty \in 1..MaxQty, AddToCart(h, u, p, qty) PROVE Goal
  <2> DEFINE b == [stock |-> products[p].stockQty]
             r == [IdleRequest EXCEPT !.id = p, !.form = [user |-> u, qty |-> qty], !.base = b]
  <2>1. Accept(h, "cart.line", r)
    BY <1>1 DEF AddToCart
  <2>2. DOMAIN r = Fields /\ r.id = p /\ r.form.user = u /\ r.form.qty = qty
    BY ShopRequestFields
  <2> HIDE DEF r
  <2>3. RequestOK("cart.line", r)
    BY <1>0, <2>2 DEF RequestOK, ProductStep, CartStep, CartQty
  <2> QED
    BY <1>0, <2>1, <2>3, Accepting
<1>2. ASSUME NEW p \in Product, NEW qty \in 0..MaxQty, UpdateQty(h, u, p, qty) PROVE Goal
  <2> DEFINE r == [IdleRequest EXCEPT !.id = p, !.form = [user |-> u, qty |-> qty]]
  <2>1. Accept(h, "cart.set", r) /\ qty >= 1
    BY <1>2 DEF UpdateQty
  <2>2. DOMAIN r = Fields /\ r.id = p /\ r.form.user = u /\ r.form.qty = qty
    BY ShopRequestFields
  <2> HIDE DEF r
  <2>3. RequestOK("cart.set", r)
    BY <1>0, <2>1, <2>2 DEF RequestOK, ProductStep, CartStep, CartQty
  <2> QED
    BY <1>0, <2>1, <2>3, Accepting
<1>3. CASE Checkout(h, u)
  <2> DEFINE b == [lines |-> listCart(u)]
             r == [IdleRequest EXCEPT !.form = [user |-> u, qty |-> 0], !.base = b]
  <2>1. Accept(h, "checkout.clear", r)
    BY <1>3 DEF Checkout
  <2>2. DOMAIN r = Fields /\ r.form.user = u /\ r.base = b
    BY ShopRequestFields
  <2>3. \A p \in DOMAIN b.lines : p \in Product /\ b.lines[p] \in CartQty
    BY DEF listCart, Belongings
  <2> HIDE DEF r, b
  <2>4. RequestOK("checkout.clear", r)
    BY <2>2, <2>3 DEF RequestOK, ProductStep, CartStep
  <2> QED
    BY <1>0, <2>1, <2>4, Accepting
<1>4. ASSUME NEW p \in Product, AddToWishlist(h, u, p) PROVE Goal
  <2> DEFINE r == [IdleRequest EXCEPT !.id = p, !.form = [user |-> u, qty |-> 0]]
  <2>1. Accept(h, "wish.write", r)
    BY <1>4 DEF AddToWishlist
  <2>2. DOMAIN r = Fields /\ r.id = p /\ r.form.user = u
    BY ShopRequestFields
  <2> HIDE DEF r
  <2>3. RequestOK("wish.write", r)
    BY <2>2 DEF RequestOK, ProductStep, CartStep
  <2> QED
    BY <1>0, <2>1, <2>3, Accepting
<1>5. ASSUME NEW p \in Product, NEW rating \in Rating, CreateReview(h, u, p, rating) PROVE Goal
  <2> DEFINE r == [IdleRequest EXCEPT !.id = p, !.form = [user |-> u, qty |-> rating]]
  <2>1. Accept(h, "review.write", r)
    BY <1>5 DEF CreateReview
  <2>2. DOMAIN r = Fields /\ r.id = p /\ r.form.user = u /\ r.form.qty = rating
    BY ShopRequestFields
  <2> HIDE DEF r
  <2>3. RequestOK("review.write", r)
    BY <2>2 DEF RequestOK, ProductStep, CartStep
  <2> QED
    BY <1>0, <2>1, <2>3, Accepting
<1> QED
  BY <1>1, <1>2, <1>3, <1>4, <1>5 DEF CustomerStep

LEMMA ShopHandlerRequests ==
    ASSUME Requests, Belongings, NEW h \in Handler, ShopHandlerStep(h)
    PROVE  /\ Requests' /\ at[h] \in ShopStep
           /\ \E step \in {"idle", "cart.write"} : MovedTo(h, step)
<1> DEFINE r == req[h]
           existing == Quantity(cart[r.form.user], r.id)
<1>1. at[h] \in ShopStep
  BY DEF ShopHandlerStep, ReadLine, WriteLine, SetLine, CheckoutFails, CheckoutClear, WriteWish,
         WriteReview, ShopStep
<1>2. CASE Answer(h)
  BY <1>1, <1>2, Answering
<1>3. CASE ReadLine(h) /\ ~Answer(h)
  <2> DEFINE q == [r EXCEPT !.base = [qty |-> existing]]
  <2>1. /\ at[h] = "cart.line" /\ UNCHANGED used
        /\ at' = [at EXCEPT ![h] = "cart.write"] /\ req' = [req EXCEPT ![h] = q]
    BY <1>3 DEF ReadLine
  <2>2. RequestOK("cart.line", r)
    BY <2>1 DEF Requests
  <2>3. existing \in Nat
    BY <2>2 DEF RequestOK, CartStep, Belongings, Quantity, CartQty
  <2>4. DOMAIN q = Fields /\ q.id = r.id /\ q.form = r.form /\ q.base.qty = existing
    BY <2>2 DEF RequestOK, Fields
  <2> HIDE DEF q, r, existing
  <2>5. RequestOK("cart.write", q)
    BY <2>2, <2>3, <2>4 DEF RequestOK, ProductStep, CartStep
  <2>6. "cart.write" \in AnyStep
    BY DEF AnyStep, ShopStep
  <2> QED
    BY <1>1, <2>1, <2>5, <2>6, Going
<1> QED
  BY <1>2, <1>3 DEF ShopHandlerStep, WriteLine, SetLine, CheckoutFails, CheckoutClear, WriteWish,
                    WriteReview

\* The requests that are one call.
LEMMA OtherRequests ==
    ASSUME Requests,
           \/ \E u \in Customer : CustomerCall(u)
           \/ \E r \in reviews : RemoveReview(r)
           \/ \E line \in unsold : SellLine(line[1], line[2])
    PROVE  Requests' /\ UNCHANGED <<at, req>>
<1>1. UNCHANGED <<at, req>> /\ (used' = used \/ (used < MaxRequests /\ used' = used + 1))
  BY DEF CustomerCall, RemoveLine, ClearCart, ConfirmClears, RemoveFromWishlist, RemoveReview,
         SellLine
<1> QED
  BY <1>1, CatalogueAssumption DEF Requests

LEMMA SellLineDocuments ==
    ASSUME Documents, Belongings, NEW line \in unsold, SellLine(line[1], line[2])
    PROVE  /\ Documents' /\ DOMAIN ledger' = DOMAIN products'
           /\ DOMAIN products' = DOMAIN products
           /\ \A p \in DOMAIN products :
                 /\ products'[p].category = products[p].category
                 /\ products'[p].brand = products[p].brand
<1> DEFINE p == line[1]
           doc == [products[p] EXCEPT !.stockQty = @ - line[2]]
<1>1. line[2] \in Int
  BY DEF Belongings, CartQty
<1>2. /\ UNCHANGED <<categories, brands, drawn>>
      /\ \/ p \in DOMAIN products /\ products' = [products EXCEPT ![p] = doc]
            /\ ledger' = [ledger EXCEPT ![p] = @ - line[2]]
         \/ UNCHANGED <<products, ledger>>
  BY DEF SellLine
<1>3. p \in DOMAIN products =>
        doc \in ProductDoc /\ doc.category = products[p].category /\ doc.brand = products[p].brand
  BY <1>1 DEF ProductDoc, Documents, Keeps
<1> HIDE DEF p, doc
<1> QED
  BY <1>2, <1>3 DEF Documents, Keeps, Belongings

LEMMA SomeStep ==
    ASSUME StorefrontNext
    PROVE  \/ \E h \in Handler : AdminStep(h)
           \/ \E h \in Handler : ShopHandlerStep(h)
           \/ \E h \in Handler, u \in Customer : CustomerStep(h, u)
           \/ \E u \in Customer : CustomerCall(u)
           \/ \E r \in reviews : RemoveReview(r)
           \/ \E line \in unsold : SellLine(line[1], line[2])
BY DEF StorefrontNext

LEMMA ShopDocuments ==
    ASSUME NEW h, ShopHandlerStep(h) \/ (\E u \in Customer : CustomerStep(h, u) \/ CustomerCall(u))
                  \/ (\E r \in reviews : RemoveReview(r))
    PROVE  UNCHANGED <<collections, drawn, raced, moved, ledger, stale>>
<1>1. CASE ShopHandlerStep(h)
  BY <1>1 DEF ShopHandlerStep, ReadLine, WriteLine, SetLine, CheckoutFails, CheckoutClear,
              WriteWish, WriteReview, Untouched
<1>2. CASE \E u \in Customer : CustomerStep(h, u)
  BY <1>2 DEF CustomerStep, AddToCart, UpdateQty, Checkout, AddToWishlist, CreateReview, Untouched
<1>3. CASE \E u \in Customer : CustomerCall(u)
  BY <1>3 DEF CustomerCall, RemoveLine, ClearCart, ConfirmClears, RemoveFromWishlist, Untouched
<1>4. CASE \E r \in reviews : RemoveReview(r)
  BY <1>4 DEF RemoveReview, Untouched
<1> QED
  BY <1>1, <1>2, <1>3, <1>4

\* Carts hold quantities of products.
Carts ==
    /\ DOMAIN cart = Customer
    /\ \A u \in Customer : \A p \in DOMAIN cart[u] : p \in Product /\ cart[u][p] \in CartQty

\* What a step does to the carts: nothing, or one customer's lines are others.
LEMMA CartsOK ==
    ASSUME Carts, NEW u \in Customer, NEW lines, cart' = [cart EXCEPT ![u] = lines],
           \A p \in DOMAIN lines : p \in Product /\ lines[p] \in CartQty
    PROVE  Carts'
BY DEF Carts

LEMMA WithLine ==
    ASSUME NEW lines, \A p \in DOMAIN lines : p \in Product /\ lines[p] \in CartQty, NEW p \in Product
    PROVE  /\ \A q \in DOMAIN without(lines, p) : q \in Product /\ without(lines, p)[q] \in CartQty
           /\ \A qty \in CartQty : \A q \in DOMAIN with(lines, p, qty) :
                 q \in Product /\ with(lines, p, qty)[q] \in CartQty
BY DEF with, without

LEMMA PutLineOK ==
    ASSUME Carts, NEW u \in Customer, NEW p \in Product, NEW qty \in CartQty, NEW total,
           PutLine(u, p, qty, total)
    PROVE  Carts'
<1> DEFINE lines == with(cart[u], p, qty)
<1>1. \A q \in DOMAIN cart[u] : q \in Product /\ cart[u][q] \in CartQty
  BY DEF Carts
<1>2. \A q \in DOMAIN lines : q \in Product /\ lines[q] \in CartQty
  BY <1>1, WithLine
<1>3. cart' = [cart EXCEPT ![u] = lines]
  BY DEF PutLine
<1> HIDE DEF lines
<1> QED
  BY <1>2, <1>3, CartsOK

LEMMA EmptiedOK ==
    ASSUME Carts, NEW u \in Customer, cart' = Emptied(u)
    PROVE  Carts'
<1>1. \A p \in DOMAIN NoLines : p \in Product /\ NoLines[p] \in CartQty
  BY DEF NoLines
<1>2. cart' = [cart EXCEPT ![u] = NoLines]
  BY DEF Emptied
<1> QED
  BY <1>1, <1>2, CartsOK

LEMMA CartsStay ==
    ASSUME Requests, Belongings, Carts, StorefrontNext
    PROVE  Carts'
<1>1. CASE UNCHANGED cart
  BY <1>1 DEF Carts
<1>2. ASSUME NEW h \in Handler, ShopHandlerStep(h) PROVE Carts'
  <2> DEFINE r == req[h]
             u == r.form.user
             existing == Quantity(cart[u], r.id)
  <2>0. RequestOK(at[h], r)
    BY DEF Requests
  <2>1. CASE WriteLine(h) /\ ~UNCHANGED cart
    <3> DEFINE next == nextQty(r.base.qty, r.form.qty)
               total == Quantity(asked[u], r.id) + r.form.qty
    <3>1. at[h] = "cart.write" /\ PutLine(u, r.id, next, total)
      BY <2>1 DEF WriteLine
    <3>2. /\ u \in Customer /\ r.id \in Product
          /\ r.form.qty \in CartQty /\ r.base.qty \in Nat
      BY <2>0, <3>1 DEF RequestOK, CartStep
    <3>3. next \in CartQty
      BY <3>2 DEF nextQty, CartQty
    <3> HIDE DEF r, u, next, total
    <3> QED
      BY <3>1, <3>2, <3>3, PutLineOK
  <2>2. CASE SetLine(h) /\ ~UNCHANGED cart
    <3>1. at[h] = "cart.set" /\ PutLine(u, r.id, r.form.qty, r.form.qty)
      BY <2>2 DEF SetLine
    <3>2. u \in Customer /\ r.id \in Product /\ r.form.qty \in CartQty
      BY <2>0, <3>1 DEF RequestOK, CartStep
    <3> QED
      BY <3>1, <3>2, PutLineOK
  <2>3. CASE CheckoutClear(h)
    <3>1. u \in Customer /\ cart' = Emptied(u)
      BY <2>0, <2>3 DEF CheckoutClear, RequestOK
    <3> QED
      BY <3>1, EmptiedOK
  <2> QED
    BY <1>1, <1>2, <2>1, <2>2, <2>3 DEF ShopHandlerStep, ReadLine, CheckoutFails, WriteWish,
                                        WriteReview, shop
<1>3. ASSUME NEW u \in Customer, CustomerCall(u) PROVE Carts'
  <2>1. ASSUME NEW p \in Product, RemoveLine(u, p) PROVE Carts'
    <3> DEFINE lines == without(cart[u], p)
    <3>1. \A q \in DOMAIN cart[u] : q \in Product /\ cart[u][q] \in CartQty
      BY DEF Carts
    <3>2. \A q \in DOMAIN lines : q \in Product /\ lines[q] \in CartQty
      BY <3>1, WithLine
    <3>3. cart' = [cart EXCEPT ![u] = lines]
      BY <2>1 DEF RemoveLine
    <3> HIDE DEF lines
    <3> QED
      BY <3>2, <3>3, CartsOK
  <2>2. CASE ClearCart(u) \/ ConfirmClears(u)
    BY <2>2, EmptiedOK DEF ClearCart, ConfirmClears
  <2> QED
    BY <1>1, <1>3, <2>1, <2>2 DEF CustomerCall, RemoveFromWishlist
<1>4. ASSUME NEW h \in Handler, NEW u \in Customer, CustomerStep(h, u) PROVE UNCHANGED cart
  BY <1>4 DEF CustomerStep, AddToCart, UpdateQty, Checkout, AddToWishlist, CreateReview, shop
<1> QED
  BY <1>1, <1>2, <1>3, <1>4, SomeStep DEF AdminStep, RemoveReview, SellLine, shop

LEMMA BelongingsStay ==
    ASSUME TypeInv, StorefrontNext
    PROVE  Belongings'
<1> DEFINE Rest == /\ wishlist' \subseteq WishDoc
                   /\ reviews' \subseteq ReviewDoc
                   /\ \A line \in unsold' : line \in Product \X CartQty
                   /\ ordered' \in [Customer -> BOOLEAN]
<1>0. Requests /\ Documents /\ Belongings /\ Carts
  BY DEF TypeInv, Belongings, Carts
<1>1. Carts'
  BY <1>0, CartsStay
<1>2. ASSUME UNCHANGED <<wishlist, reviews, unsold, ordered>> PROVE Rest
  BY <1>2, <1>0 DEF Belongings
<1>3. ASSUME NEW h \in Handler, ShopHandlerStep(h) PROVE Rest
  <2> DEFINE r == req[h]
  <2>0. RequestOK(at[h], r)
    BY <1>0 DEF Requests
  <2>1. CASE WriteWish(h)
    <3>1. /\ wishlist' = wishlist \cup {<<r.form.user, r.id>>} /\ UNCHANGED <<reviews, unsold, ordered>>
          /\ r.form.user \in Customer /\ r.id \in Product
      BY <2>0, <2>1 DEF WriteWish, RequestOK
    <3> QED
      BY <3>1, <1>0 DEF Belongings, WishDoc
  <2>2. CASE WriteReview(h)
    <3> DEFINE review == [user |-> r.form.user, product |-> r.id, rating |-> r.form.qty]
    <3>1. /\ reviews' \subseteq reviews \cup {review}
          /\ UNCHANGED <<wishlist, unsold, ordered>>
          /\ r.form.user \in Customer /\ r.id \in Product /\ r.form.qty \in Rating
      BY <2>0, <2>2 DEF WriteReview, RequestOK
    <3>2. review \in ReviewDoc
      BY <3>1 DEF ReviewDoc
    <3> HIDE DEF review
    <3> QED
      BY <3>1, <3>2, <1>0 DEF Belongings
  <2>3. CASE CheckoutClear(h)
    <3> DEFINE lines == r.base.lines
    <3>1. /\ unsold' = unsold \cup {<<p, lines[p]>> : p \in DOMAIN lines}
          /\ UNCHANGED <<wishlist, reviews>>
          /\ ordered' = [ordered EXCEPT ![r.form.user] = TRUE]
          /\ \A p \in DOMAIN lines : p \in Product /\ lines[p] \in CartQty
      BY <2>0, <2>3 DEF CheckoutClear, RequestOK
    <3> HIDE DEF lines
    <3>2. \A line \in unsold' : line \in Product \X CartQty
      BY <3>1, <1>0 DEF Belongings
    <3>3. ordered' \in [Customer -> BOOLEAN]
      BY <3>1, <1>0 DEF Belongings
    <3> QED
      BY <3>1, <3>2, <3>3, <1>0 DEF Belongings
  <2>4. ASSUME ReadLine(h) \/ WriteLine(h) \/ SetLine(h) \/ CheckoutFails(h) PROVE Rest
    BY <1>2, <2>4 DEF ReadLine, WriteLine, SetLine, CheckoutFails, shop
  <2> QED
    BY <1>3, <2>1, <2>2, <2>3, <2>4 DEF ShopHandlerStep
<1>4. ASSUME \E u \in Customer : CustomerCall(u) PROVE Rest
  BY <1>4, <1>0 DEF CustomerCall, RemoveLine, ClearCart, ConfirmClears, RemoveFromWishlist,
                    Belongings
<1>5. ASSUME \E r \in reviews : RemoveReview(r) PROVE Rest
  BY <1>5, <1>0 DEF RemoveReview, Belongings
<1>6. ASSUME \E line \in unsold : SellLine(line[1], line[2]) PROVE Rest
  BY <1>6, <1>0 DEF SellLine, Belongings
<1>7. ASSUME NEW h \in Handler, NEW u \in Customer, CustomerStep(h, u) PROVE Rest
  BY <1>2, <1>7 DEF CustomerStep, AddToCart, UpdateQty, Checkout, AddToWishlist, CreateReview, shop
<1>8. ASSUME NEW h \in Handler, AdminStep(h) PROVE Rest
  BY <1>2, <1>8 DEF AdminStep, shop
<1>9. Rest
  BY <1>3, <1>4, <1>5, <1>6, <1>7, <1>8, SomeStep
<1>10. DOMAIN ledger' = DOMAIN products'
  <2>1. CASE \E h \in Handler : AdminStep(h)
    BY <2>1 DEF AdminStep
  <2>2. CASE \E line \in unsold : SellLine(line[1], line[2])
    BY <2>2, <1>0, SellLineDocuments
  <2>3. CASE UNCHANGED <<products, ledger>>
    BY <2>3, <1>0 DEF Belongings
  <2> QED
    BY <2>1, <2>2, <2>3, SomeStep, ShopDocuments DEF collections
<1> QED
  BY <1>1, <1>9, <1>10 DEF Belongings, Carts

LEMMA TypeStep ==
    ASSUME TypeInv, [StorefrontNext]_vars
    PROVE  TypeInv'
<1>1. CASE UNCHANGED vars
  BY <1>1 DEF vars, catalogueVars, collections, shop, TypeInv, Requests, Documents, Keeps,
              Belongings
<1>2. CASE StorefrontNext
  <2>0. Requests /\ Documents /\ Belongings
    BY DEF TypeInv
  <2>1. ASSUME NEW h \in Handler, AdminStep(h) PROVE Requests' /\ Documents'
    BY <2>0, <2>1, CatalogueRequests, CatalogueDocuments DEF AdminStep, Served
  <2>2. ASSUME UNCHANGED <<collections, drawn>> PROVE Documents'
    BY <2>0, <2>2 DEF Documents, Keeps, collections
  <2>3. ASSUME NEW h \in Handler, ShopHandlerStep(h) PROVE Requests' /\ Documents'
    BY <2>0, <2>2, <2>3, ShopHandlerRequests, ShopDocuments
  <2>4. ASSUME NEW h \in Handler, NEW u \in Customer, CustomerStep(h, u)
        PROVE  Requests' /\ Documents'
    BY <2>0, <2>2, <2>4, CustomerRequests, ShopDocuments
  <2>5. ASSUME (\E u \in Customer : CustomerCall(u)) \/ (\E r \in reviews : RemoveReview(r))
        PROVE  Requests' /\ Documents'
    BY <2>0, <2>2, <2>5, OtherRequests, ShopDocuments
  <2>6. ASSUME NEW line \in unsold, SellLine(line[1], line[2]) PROVE Requests' /\ Documents'
    BY <2>0, <2>6, OtherRequests, SellLineDocuments
  <2> QED
    BY <1>2, <2>1, <2>3, <2>4, <2>5, <2>6, SomeStep, BelongingsStay DEF TypeInv
<1> QED
  BY <1>1, <1>2

LEMMA TypeInit ==
    ASSUME StorefrontInit
    PROVE  TypeInv
<1> USE DEF StorefrontInit, CatalogueInit
<1>1. Requests
  BY IdleOK, CatalogueAssumption DEF Requests
<1>2. Documents
  BY CatalogueAssumption DEF Documents, Keeps, CategoryName, BrandDoc
<1>3. Belongings
  BY StorefrontAssumption DEF Belongings
<1> QED
  BY <1>1, <1>2, <1>3 DEF TypeInv

LEMMA TypeAlways == Spec => []TypeInv
BY TypeInit, TypeStep, PTL DEF Spec

\* Types of the catalogue and of what customers keep
\* (models of modules/category, modules/brands, modules/products, modules/cart,
\* modules/wishlist, modules/reviews): whatever requests overlap, a stored document
\* is one its schema allows, under an id drawn for it, a cart line holds a
\* positive quantity, and at most MaxRequests requests have begun.
THEOREM StorefrontTypes == Spec => []TypeOK
BY TypeAlways, TypeInvOK, PTL

-------------------------------------------------------------------------------
(* The stock *)

\* A step of an administrator that is not a save leaves each product that was
\* there and stays as it was.
LEMMA OnlySavesEdit ==
    ASSUME Documents, NEW h \in Handler, CatalogueStep(h), NEW q \in DOMAIN products,
           q \in DOMAIN products', at[h] # "product.save" \/ req[h].id # q
    PROVE  products'[q] = products[q]
<1>1. CASE UNCHANGED products
  BY <1>1
<1>2. ASSUME NEW p \in Product, InsertProduct(h, p) PROVE products'[q] = products[q]
  <2> DEFINE doc == Filled(req[h])
  <2>1. p \in Product \ drawn /\ (products' = products \/ products' = with(products, p, doc))
    BY <1>2 DEF InsertProduct, fresh
  <2>2. q # p
    BY <2>1 DEF Documents, Keeps
  <2>3. with(products, p, doc)[q] = products[q]
    BY <2>2 DEF with
  <2> HIDE DEF doc
  <2> QED
    BY <2>1, <2>3
<1>3. CASE SaveProduct(h)
  <2> DEFINE doc == SavedPaths(products[req[h].id], req[h].base, Filled(req[h]))
  <2>1. /\ at[h] = "product.save"
        /\ products' = products \/ products' = [products EXCEPT ![req[h].id] = doc]
    BY <1>3 DEF SaveProduct
  <2> HIDE DEF doc
  <2> QED
    BY <2>1
<1>4. CASE DeleteProduct(h)
  <2>1. products' = without(products, req[h].id)
    BY <1>4 DEF DeleteProduct
  <2> QED
    BY <2>1 DEF without
<1>5. CategoryStep(h) \/ BrandStep(h) => UNCHANGED products
  BY DEF CategoryStep, BrandStep, CreateCategory, InsertCategory, UpdateCategory,
         UpdateCategoryExists, SaveCategory, RemoveCategory, CountInCategory, DeleteCategory,
         CreateBrand, InsertBrand, UpdateBrand, UpdateBrandCategory, SaveBrand, DeleteBrandLoad,
         CountOfBrand, DeleteBrand, Reading, collections
<1>6. EditStep(h) => \/ UNCHANGED products \/ \E p \in Product : InsertProduct(h, p)
                     \/ SaveProduct(h) \/ DeleteProduct(h)
  BY DEF EditStep, CreateProduct, UpdateProduct, UpdateProductCategory, CheckBrand, CheckSku,
         FindSlug, DeleteProductLoad, Reading, collections
<1> QED
  BY <1>1, <1>2, <1>3, <1>4, <1>5, <1>6, CatalogueSteps

\* A save writes one product, with the quantity that the form and the loaded
\* document make of it.
LEMMA SavedQuantity ==
    ASSUME Requests, Documents, NEW h \in Handler, CatalogueStep(h), at[h] = "product.save",
           req[h].id \in DOMAIN products, products' # products
    PROVE  LET p == req[h].id IN
           /\ req[h].form.stockQty \in Int /\ req[h].base.stockQty \in Int
           /\ p \in DOMAIN products'
           /\ products'[p].stockQty =
                 IF req[h].form.stockQty = req[h].base.stockQty THEN products[p].stockQty
                 ELSE req[h].form.stockQty
<1> DEFINE r == req[h]
           p == r.id
           doc == SavedPaths(products[p], r.base, Filled(r))
<1>0. RequestOK("product.save", r)
  BY DEF Requests
<1>1. SaveProduct(h)
  BY DEF CatalogueStep, CreateCategory, InsertCategory, UpdateCategory, UpdateCategoryExists,
         SaveCategory, RemoveCategory, CountInCategory, DeleteCategory, CreateBrand, InsertBrand,
         UpdateBrand, UpdateBrandCategory, SaveBrand, DeleteBrandLoad, CountOfBrand, DeleteBrand,
         CreateProduct, UpdateProduct, UpdateProductCategory, CheckBrand, CheckSku, FindSlug,
         InsertProduct, DeleteProductLoad, DeleteProduct, Accept
<1>2. /\ r.form \in Form /\ r.slug \in Nat /\ r.name \in CategoryName
      /\ AttributesComplete(r.name, r.form.attributes)
      /\ p \in Product /\ (p = NoId \/ r.base \in ProductDoc)
  BY <1>0 DEF RequestOK, ProductStep
<1>3. r.base \in ProductDoc
  BY <1>2, CatalogueAssumption
<1>4. Filled(r) \in ProductDoc /\ Filled(r).stockQty = r.form.stockQty
  BY <1>2, FilledOK
<1>5. products[p] \in ProductDoc
  BY DEF Documents, Keeps
<1>6. products' = [products EXCEPT ![p] = doc]
  BY <1>1 DEF SaveProduct
<1>7. doc.stockQty = IF r.form.stockQty = r.base.stockQty THEN products[p].stockQty
                     ELSE r.form.stockQty
  BY <1>4, <1>5, SavedPathsOK
<1>8. r.form.stockQty \in Int /\ r.base.stockQty \in Int
  BY <1>2, <1>3, CatalogueAssumption DEF ProductDoc
<1> HIDE DEF doc, r
<1>9. p \in DOMAIN products' /\ products'[p] = doc
  BY <1>6 DEF r
<1> QED
  BY <1>7, <1>8, <1>9 DEF r

LEMMA StockAdmin ==
    ASSUME TypeInv, StockFollowsLedger, NEW h \in Handler, AdminStep(h)
    PROVE  StockFollowsLedger'
<1> DEFINE r == req[h]
           p == r.id
           saving == at[h] = "product.save" /\ p \in DOMAIN products
           change == r.form.stockQty - r.base.stockQty
<1>0. Requests /\ Documents /\ DOMAIN ledger = DOMAIN products
  BY DEF TypeInv, Belongings
<1>1. /\ CatalogueStep(h)
      /\ ledger' = [q \in DOMAIN products' |->
                      IF q \notin DOMAIN products THEN products'[q].stockQty
                      ELSE IF saving /\ q = p /\ products' # products
                           THEN ledger[q] + change ELSE ledger[q]]
      /\ stale' = IF saving /\ change # 0 /\ products[p].stockQty # r.base.stockQty
                  THEN stale \cup {p} ELSE stale
  BY DEF AdminStep
<1>2. ASSUME NEW q \in DOMAIN products', q \notin stale'
      PROVE  products'[q].stockQty = ledger'[q]
  <2>1. CASE q \notin DOMAIN products
    BY <1>1, <2>1
  <2>2. CASE q \in DOMAIN products /\ (q # p \/ ~saving)
    <3>1. products'[q] = products[q]
      BY <1>0, <1>1, <2>2, OnlySavesEdit
    <3>2. q \notin stale /\ ledger'[q] = ledger[q]
      BY <1>1, <1>2, <2>2
    <3> QED
      BY <2>2, <3>1, <3>2 DEF StockFollowsLedger
  <2>3. CASE saving /\ q = p /\ products' = products
    BY <1>1, <1>2, <2>3 DEF StockFollowsLedger
  <2>4. CASE saving /\ q = p /\ products' # products
    <3>1. /\ r.form.stockQty \in Int /\ r.base.stockQty \in Int
          /\ products'[p].stockQty =
                IF r.form.stockQty = r.base.stockQty THEN products[p].stockQty
                ELSE r.form.stockQty
      BY <1>0, <1>1, <2>4, SavedQuantity
    <3>2. ledger'[p] = ledger[p] + change /\ p \notin stale
      BY <1>1, <1>2, <2>4
    <3>3. ledger[p] = products[p].stockQty /\ products[p].stockQty \in Int
      BY <1>0, <2>4, <3>2 DEF StockFollowsLedger, Documents, Keeps, ProductDoc
    <3>4. change = 0 \/ products[p].stockQty = r.base.stockQty
      BY <1>1, <1>2, <2>4
    <3> QED
      BY <2>4, <3>1, <3>2, <3>3, <3>4
  <2> QED
    BY <2>1, <2>2, <2>3, <2>4
<1> QED
  BY <1>2 DEF StockFollowsLedger

LEMMA StockSales ==
    ASSUME TypeInv, StockFollowsLedger, NEW line \in unsold, SellLine(line[1], line[2])
    PROVE  StockFollowsLedger'
<1> DEFINE p == line[1]
           doc == [products[p] EXCEPT !.stockQty = @ - line[2]]
           left == ledger[p] - line[2]
<1>0. Documents /\ Belongings
  BY DEF TypeInv
<1>1. CASE UNCHANGED <<products, ledger>>
  BY <1>1 DEF StockFollowsLedger, SellLine
<1>2. CASE p \in DOMAIN products
  <2>1. /\ products' = [products EXCEPT ![p] = doc] /\ ledger' = [ledger EXCEPT ![p] = left]
        /\ UNCHANGED stale
    BY <1>2 DEF SellLine
  <2>2. doc.stockQty = products[p].stockQty - line[2]
    BY <1>0, <1>2 DEF Documents, Keeps, ProductDoc
  <2>3. p \notin stale => doc.stockQty = left
    BY <1>2, <2>2 DEF StockFollowsLedger
  <2> HIDE DEF p, doc, left
  <2> QED
    BY <1>0, <1>2, <2>1, <2>3 DEF StockFollowsLedger, Belongings
<1> QED
  BY <1>1, <1>2 DEF SellLine

\* The ledger of a product's stock
\* (models of product.service.ts, cart.service.ts and the stock listener): for any
\* number of orders and administrators' forms under way, the quantity on sale is
\* what sales and changes add up to, unless a form changed it on an old reading.
THEOREM StockAlwaysFollowsLedger == Spec => []StockFollowsLedger
<1>1. StorefrontInit => StockFollowsLedger
  BY DEF StorefrontInit, CatalogueInit, StockFollowsLedger
<1>2. ASSUME TypeInv, StockFollowsLedger, [StorefrontNext]_vars PROVE StockFollowsLedger'
  <2>1. CASE UNCHANGED <<products, ledger, stale>>
    BY <1>2, <2>1 DEF StockFollowsLedger
  <2>2. CASE UNCHANGED vars
    BY <2>1, <2>2 DEF vars, catalogueVars, collections
  <2>3. CASE StorefrontNext
    BY <1>2, <2>1, <2>3, SomeStep, ShopDocuments, StockAdmin, StockSales DEF collections
  <2> QED
    BY <1>2, <2>2, <2>3
<1> QED
  BY <1>1, <1>2, TypeAlways, PTL DEF Spec

-------------------------------------------------------------------------------
(* The carts *)

LEMMA QuantityWith ==
    ASSUME NEW lines, NEW p, NEW qty
    PROVE  \A q : Quantity(with(lines, p, qty), q) = IF q = p THEN qty ELSE Quantity(lines, q)
BY DEF Quantity, with

LEMMA QuantityWithout ==
    ASSUME NEW lines, NEW p
    PROVE  \A q : Quantity(without(lines, p), q) = IF q = p THEN 0 ELSE Quantity(lines, q)
BY DEF Quantity, without

CartInv == Carts /\ DOMAIN asked = Customer /\ CartKeepsRequests

LEMMA CartLinePut ==
    ASSUME CartInv, NEW u \in Customer, NEW p \in Product, NEW qty, NEW total,
           PutLine(u, p, qty, total), overtaken \subseteq overtaken',
           <<u, p>> \in overtaken' \/ qty = total
    PROVE  DOMAIN asked' = Customer /\ CartKeepsRequests'
<1> DEFINE lines == with(cart[u], p, qty)
           sums == with(asked[u], p, total)
<1>1. cart' = [cart EXCEPT ![u] = lines] /\ asked' = [asked EXCEPT ![u] = sums]
  BY DEF PutLine
<1>2. ASSUME NEW q \in Product, <<u, q>> \notin overtaken' PROVE Quantity(lines, q) = Quantity(sums, q)
  <2>1. Quantity(cart[u], q) = Quantity(asked[u], q)
    BY <1>2 DEF CartInv, CartKeepsRequests
  <2>2. Quantity(lines, q) = IF q = p THEN qty ELSE Quantity(cart[u], q)
    BY QuantityWith
  <2>3. Quantity(sums, q) = IF q = p THEN total ELSE Quantity(asked[u], q)
    BY QuantityWith
  <2> QED
    BY <1>2, <2>1, <2>2, <2>3
<1> HIDE DEF lines, sums
<1> QED
  BY <1>1, <1>2 DEF CartInv, Carts, CartKeepsRequests

LEMMA CartEmptied ==
    ASSUME CartInv, NEW u \in Customer, cart' = Emptied(u),
           asked' = [asked EXCEPT ![u] = NoLines], UNCHANGED overtaken
    PROVE  DOMAIN asked' = Customer /\ CartKeepsRequests'
<1>1. cart' = [cart EXCEPT ![u] = NoLines]
  BY DEF Emptied
<1> DEFINE none == NoLines
<1>2. \A q \in Product : \/ Quantity(none, q) = 0 /\ Quantity(none, q) = 0
                       \/ /\ Quantity(none, q) = Quantity(cart[u], q)
                          /\ Quantity(none, q) = Quantity(asked[u], q)
  BY DEF Quantity, NoLines
<1> HIDE DEF none
<1>3. cart' = [cart EXCEPT ![u] = none] /\ asked' = [asked EXCEPT ![u] = none]
  BY <1>1 DEF none
<1> QED
  BY <1>2, <1>3 DEF CartInv, Carts, CartKeepsRequests

LEMMA CartStepKeeps ==
    ASSUME TypeInv, CartInv, StorefrontNext
    PROVE  DOMAIN asked' = Customer /\ CartKeepsRequests'
<1> DEFINE Goal == DOMAIN asked' = Customer /\ CartKeepsRequests'
<1>0. Requests /\ Belongings /\ Carts
  BY DEF TypeInv, CartInv
<1>1. ASSUME UNCHANGED <<cart, asked, overtaken>> PROVE Goal
  BY <1>1 DEF CartInv, CartKeepsRequests
<1>2. ASSUME NEW h \in Handler, WriteLine(h) PROVE Goal
  <2> DEFINE r == req[h]
             u == r.form.user
             existing == Quantity(cart[u], r.id)
             next == nextQty(r.base.qty, r.form.qty)
             total == Quantity(asked[u], r.id) + r.form.qty
  <2>0. at[h] = "cart.write" /\ RequestOK(at[h], r)
    BY <1>0, <1>2 DEF Requests, WriteLine
  <2>1. u \in Customer /\ r.id \in Product /\ r.form.qty \in CartQty /\ r.base.qty \in Nat
    BY <2>0 DEF RequestOK, CartStep
  <2>2. CASE UNCHANGED <<cart, asked, overtaken>>
    BY <1>1, <2>2
  <2>3. CASE ~UNCHANGED <<cart, asked, overtaken>>
    <3>1. /\ PutLine(u, r.id, next, total)
          /\ overtaken' = IF existing # r.base.qty THEN overtaken \cup {<<u, r.id>>} ELSE overtaken
      BY <1>2, <2>3 DEF WriteLine
    <3>2. existing = Quantity(asked[u], r.id) \/ <<u, r.id>> \in overtaken
      BY <2>1 DEF CartInv, CartKeepsRequests
    <3>3. <<u, r.id>> \in overtaken' \/ next = total
      BY <3>1, <3>2 DEF nextQty
    <3>4. overtaken \subseteq overtaken'
      BY <3>1
    <3> HIDE DEF r, u, next, total, existing
    <3> QED
      BY <2>1, <3>1, <3>3, <3>4, CartLinePut
  <2> QED
    BY <2>2, <2>3
<1>3. ASSUME NEW h \in Handler, SetLine(h) PROVE Goal
  <2> DEFINE r == req[h]
  <2>0. at[h] = "cart.set" /\ RequestOK(at[h], r)
    BY <1>0, <1>3 DEF Requests, SetLine
  <2>1. r.form.user \in Customer /\ r.id \in Product
    BY <2>0 DEF RequestOK, CartStep
  <2>2. CASE UNCHANGED <<cart, asked>>
    BY <1>1, <1>3, <2>2 DEF SetLine
  <2>3. CASE ~UNCHANGED <<cart, asked>>
    <3>1. PutLine(r.form.user, r.id, r.form.qty, r.form.qty) /\ UNCHANGED overtaken
      BY <1>3, <2>3 DEF SetLine
    <3> QED
      BY <2>1, <3>1, CartLinePut
  <2> QED
    BY <2>2, <2>3
<1>4. ASSUME NEW h \in Handler, CheckoutClear(h) PROVE Goal
  <2>0. at[h] = "checkout.clear" /\ RequestOK(at[h], req[h])
    BY <1>0, <1>4 DEF Requests, CheckoutClear
  <2>1. req[h].form.user \in Customer
    BY <2>0 DEF RequestOK
  <2> QED
    BY <1>4, <2>1, CartEmptied DEF CheckoutClear
<1>5. ASSUME NEW h \in Handler, ReadLine(h) \/ CheckoutFails(h) \/ WriteWish(h) \/ WriteReview(h)
      PROVE  Goal
  BY <1>1, <1>5 DEF ReadLine, CheckoutFails, WriteWish, WriteReview, shop, shopHistory
<1>6. ASSUME NEW u \in Customer, NEW p \in Product, RemoveLine(u, p) PROVE Goal
  <2> DEFINE lines == without(cart[u], p)
             sums == without(asked[u], p)
  <2>1. /\ cart' = [cart EXCEPT ![u] = lines] /\ asked' = [asked EXCEPT ![u] = sums]
        /\ UNCHANGED overtaken
    BY <1>6 DEF RemoveLine
  <2>2. \A q : Quantity(lines, q) = IF q = p THEN 0 ELSE Quantity(cart[u], q)
    BY QuantityWithout
  <2>3. \A q : Quantity(sums, q) = IF q = p THEN 0 ELSE Quantity(asked[u], q)
    BY QuantityWithout
  <2>4. \A q \in Product : \/ Quantity(lines, q) = 0 /\ Quantity(sums, q) = 0
                         \/ /\ Quantity(lines, q) = Quantity(cart[u], q)
                            /\ Quantity(sums, q) = Quantity(asked[u], q)
    BY <2>2, <2>3
  <2> HIDE DEF lines, sums
  <2> QED
    BY <2>1, <2>4 DEF CartInv, Carts, CartKeepsRequests
<1>7. ASSUME NEW u \in Customer, ClearCart(u) \/ ConfirmClears(u) PROVE Goal
  BY <1>7, CartEmptied DEF ClearCart, ConfirmClears
<1>8. ASSUME NEW u \in Customer, NEW p \in Product, RemoveFromWishlist(u, p) PROVE Goal
  BY <1>1, <1>8 DEF RemoveFromWishlist, shopHistory
<1>9. ASSUME NEW h \in Handler, NEW u \in Customer, CustomerStep(h, u) PROVE Goal
  BY <1>1, <1>9 DEF CustomerStep, AddToCart, UpdateQty, Checkout, AddToWishlist, CreateReview,
                    shop, shopHistory
<1>10. ASSUME (\E h \in Handler : AdminStep(h)) \/ (\E q \in reviews : RemoveReview(q))
              \/ (\E line \in unsold : SellLine(line[1], line[2]))
       PROVE  Goal
  BY <1>1, <1>10 DEF AdminStep, RemoveReview, SellLine, shop, shopHistory
<1> QED
  BY <1>2, <1>3, <1>4, <1>5, <1>6, <1>7, <1>8, <1>9, <1>10, SomeStep DEF ShopHandlerStep, CustomerCall

\* A cart line and the requests on it
\* (model of cart.service.ts, createOrder and confirmPayment): for any number of
\* customers and requests under way, each line holds what its customer's answered
\* requests add up to, unless an add wrote over a change it had not read.
THEOREM CartAlwaysKeepsRequests == Spec => []CartKeepsRequests
<1>1. StorefrontInit => CartInv
  BY StorefrontAssumption DEF StorefrontInit, CartInv, Carts, CartKeepsRequests
<1>2. ASSUME TypeInv, CartInv, [StorefrontNext]_vars PROVE CartInv'
  <2>1. CASE UNCHANGED vars
    BY <1>2, <2>1 DEF vars, shop, shopHistory, CartInv, Carts, CartKeepsRequests
  <2>2. CASE StorefrontNext
    BY <1>2, <2>2, CartStepKeeps, CartsStay DEF CartInv, TypeInv
  <2> QED
    BY <1>2, <2>1, <2>2
<1>3. CartInv => CartKeepsRequests
  BY DEF CartInv
<1> QED
  BY <1>1, <1>2, <1>3, TypeAlways, PTL DEF Spec

-------------------------------------------------------------------------------
(* The lines of a checkout *)

\* Every line that a clear may take is one of the order, or excused: the lines
\* of a customer with a checkout under way, and those of one with an order.
Lost(u, lines) == {p \in DOMAIN cart[u] : cart[u][p] # Quantity(lines, p) /\ <<u, p>> \notin excused}

LineInv ==
    /\ \A g \in Handler : at[g] = "checkout.clear" => Lost(req[g].form.user, req[g].base.lines) = {}
    /\ \A u \in Customer : ordered[u] => \A p \in DOMAIN cart[u] : <<u, p>> \in excused
    /\ NoLineLost

\* Steps that neither begin nor end a checkout.
LEMMA LinesStay ==
    ASSUME LineInv, Requests, UNCHANGED ordered, excused \subseteq excused',
           dropped' \subseteq excused',
           \A g \in Handler : at'[g] = "checkout.clear" => at[g] = "checkout.clear" /\ req'[g] = req[g],
           \A u \in Customer : \A p \in DOMAIN cart'[u] :
              \/ p \in DOMAIN cart[u] /\ cart'[u][p] = cart[u][p]
              \/ <<u, p>> \in excused'
              \/ ~MayBeCleared(u)
    PROVE  LineInv'
<1>1. ASSUME NEW g \in Handler, at'[g] = "checkout.clear"
      PROVE  Lost(req[g].form.user, req[g].base.lines)' = {}
  <2> DEFINE u == req[g].form.user
             lines == req[g].base.lines
  <2>1. at[g] = "checkout.clear" /\ req'[g] = req[g] /\ RequestOK(at[g], req[g])
    BY <1>1 DEF Requests
  <2>2. u \in Customer /\ MayBeCleared(u) /\ Lost(u, lines) = {}
    BY <2>1 DEF RequestOK, MayBeCleared, LineInv
  <2>3. ASSUME NEW p \in DOMAIN cart'[u], <<u, p>> \notin excused'
        PROVE  cart'[u][p] = Quantity(lines, p)
    BY <2>2, <2>3 DEF Lost
  <2> QED
    BY <2>1, <2>3 DEF Lost
<1>2. ASSUME NEW u \in Customer, ordered'[u], NEW p \in DOMAIN cart'[u]
      PROVE  <<u, p>> \in excused'
  BY <1>2 DEF MayBeCleared, LineInv
<1> QED
  BY <1>1, <1>2 DEF LineInv, NoLineLost

\* A clear of u's cart takes lines of u alone.
LEMMA UnorderedLines ==
    ASSUME NEW u \in Customer, DOMAIN cart = Customer, NEW lines, NEW line \in Unordered(u, lines)
    PROVE  \E p \in DOMAIN cart[u] : line = <<u, p>> /\ cart[u][p] # Quantity(lines, p)
<1>1. PICK v \in Customer, p \in DOMAIN products :
          /\ line = <<v, p>> /\ p \in DOMAIN cart[v] /\ p \notin DOMAIN Emptied(u)[v]
          /\ v # u \/ cart[v][p] # Quantity(lines, p)
  BY DEF Unordered
<1>2. v # u => Emptied(u)[v] = cart[v]
  BY DEF Emptied
<1> QED
  BY <1>1, <1>2

LEMMA LinesCleared ==
    ASSUME LineInv, Requests, Carts, ordered \in [Customer -> BOOLEAN],
           NEW u \in Customer, cart' = Emptied(u),
           NEW lines, dropped' = dropped \cup Unordered(u, lines), Lost(u, lines) = {},
           UNCHANGED excused,
           ordered' = ordered \/ ordered' = [ordered EXCEPT ![u] = TRUE],
           \A g \in Handler : at'[g] = "checkout.clear" => at[g] = "checkout.clear" /\ req'[g] = req[g]
    PROVE  LineInv'
<1>1. DOMAIN cart'[u] = {} /\ \A v \in Customer \ {u} : cart'[v] = cart[v]
  BY DEF Emptied, NoLines, Carts
<1>2. ASSUME NEW g \in Handler, at'[g] = "checkout.clear"
      PROVE  Lost(req[g].form.user, req[g].base.lines)' = {}
  <2> DEFINE v == req[g].form.user
             own == req[g].base.lines
  <2>1. at[g] = "checkout.clear" /\ req'[g] = req[g] /\ RequestOK(at[g], req[g])
    BY <1>2 DEF Requests
  <2>2. v \in Customer /\ Lost(v, own) = {}
    BY <2>1 DEF RequestOK, LineInv
  <2>3. \A p \in DOMAIN cart'[v] : cart'[v][p] = Quantity(own, p) \/ <<v, p>> \in excused'
    BY <1>1, <2>2 DEF Lost
  <2> QED
    BY <2>1, <2>3 DEF Lost
<1>3. ASSUME NEW v \in Customer, ordered'[v], NEW p \in DOMAIN cart'[v]
      PROVE  <<v, p>> \in excused'
  <2>1. v # u
    BY <1>1, <1>3
  <2>2. cart'[v] = cart[v] /\ ordered'[v] = ordered[v]
    BY <1>1, <2>1
  <2> QED
    BY <1>3, <2>2 DEF LineInv
<1>4. Unordered(u, lines) \subseteq excused
  BY UnorderedLines DEF Carts, Lost
<1> QED
  BY <1>2, <1>3, <1>4 DEF LineInv, NoLineLost

LEMMA CheckoutBegins ==
    ASSUME LineInv, Requests, Carts, NEW h \in Handler, NEW u \in Customer, Checkout(h, u)
    PROVE  LineInv'
<1> DEFINE lines == listCart(u)
           b == [lines |-> lines]
           r == [IdleRequest EXCEPT !.form = [user |-> u, qty |-> 0], !.base = b]
<1>1. /\ at' = [at EXCEPT ![h] = "checkout.clear"] /\ req' = [req EXCEPT ![h] = r]
      /\ excused' = excused \cup {<<u, p>> : p \in DOMAIN cart[u] \ DOMAIN lines}
      /\ UNCHANGED <<cart, ordered, dropped>>
  BY DEF Checkout, Accept, shop
<1>2. r.form.user = u /\ r.base.lines = lines
  BY ShopRequestFields
<1>3. \A p \in DOMAIN cart[u] : cart[u][p] = Quantity(lines, p) \/ <<u, p>> \in excused'
  BY <1>1 DEF listCart, Quantity
<1> HIDE DEF r, lines
<1>4. ASSUME NEW g \in Handler, at'[g] = "checkout.clear"
      PROVE  Lost(req[g].form.user, req[g].base.lines)' = {}
  <2>1. CASE g = h
    BY <1>1, <1>2, <1>3, <2>1 DEF Lost, Requests
  <2>2. CASE g # h
    <3>1. at[g] = "checkout.clear" /\ req'[g] = req[g]
      BY <1>1, <1>4, <2>2 DEF Requests
    <3> QED
      BY <1>1, <3>1 DEF Lost, LineInv
  <2> QED
    BY <2>1, <2>2
<1>5. \A v \in Customer : ordered'[v] => \A p \in DOMAIN cart'[v] : <<v, p>> \in excused'
  BY <1>1 DEF LineInv
<1> QED
  BY <1>1, <1>4, <1>5 DEF LineInv, NoLineLost

LEMMA LineStep ==
    ASSUME TypeInv, LineInv, StorefrontNext
    PROVE  LineInv'
<1> DEFINE Handlers == \A g \in Handler : at'[g] = "checkout.clear" =>
                                          at[g] = "checkout.clear" /\ req'[g] = req[g]
<1>0. Requests /\ Documents /\ Belongings /\ Carts /\ ordered \in [Customer -> BOOLEAN]
  BY DEF TypeInv, Belongings, Carts
<1>1. ASSUME Handlers, UNCHANGED <<cart, ordered, excused, dropped>> PROVE LineInv'
  BY <1>0, <1>1, LinesStay DEF LineInv, NoLineLost
<1>2. ASSUME NEW h \in Handler, NEW step, MovedTo(h, step), step # "checkout.clear" PROVE Handlers
  BY <1>2 DEF MovedTo
<1>3. ASSUME NEW h \in Handler, AdminStep(h) PROVE LineInv'
  <2>1. PICK step \in Step : MovedTo(h, step)
    BY <1>0, <1>3, CatalogueRequests DEF AdminStep, Served
  <2>2. Handlers
    BY <1>2, <2>1 DEF Step
  <2> QED
    BY <1>1, <1>3, <2>2 DEF AdminStep, shop, shopHistory
<1>4. ASSUME NEW h \in Handler, ShopHandlerStep(h) PROVE Handlers
  <2>1. PICK step \in {"idle", "cart.write"} : MovedTo(h, step)
    BY <1>0, <1>4, ShopHandlerRequests
  <2> QED
    BY <1>2, <2>1
<1>5. ASSUME NEW h \in Handler, NEW p, NEW qty, NEW total, Handlers,
             PutLine(req[h].form.user, p, qty, total),
             UNCHANGED <<ordered, dropped>>
      PROVE  LineInv'
  <2> DEFINE u == req[h].form.user
             lines == with(cart[u], p, qty)
  <2>1. /\ cart' = [cart EXCEPT ![u] = lines]
        /\ excused' = IF MayBeCleared(u) THEN excused \cup {<<u, p>>} ELSE excused
    BY <1>5 DEF PutLine
  <2>2. DOMAIN lines = DOMAIN cart[u] \cup {p} /\ \A q \in DOMAIN cart[u] \ {p} : lines[q] = cart[u][q]
    BY DEF with
  <2> HIDE DEF lines, u
  <2>3. ASSUME NEW v \in Customer, NEW q \in DOMAIN cart'[v]
        PROVE  \/ q \in DOMAIN cart[v] /\ cart'[v][q] = cart[v][q]
               \/ <<v, q>> \in excused'
               \/ ~MayBeCleared(v)
    <3>1. CASE v # u
      BY <1>0, <2>1, <3>1 DEF Carts
    <3>2. CASE v = u
      <4>1. cart'[u] = lines
        BY <1>0, <2>1, <3>2 DEF Carts
      <4>2. MayBeCleared(u) => <<u, p>> \in excused'
        BY <2>1
      <4> QED
        BY <2>2, <3>2, <4>1, <4>2
    <3> QED
      BY <3>1, <3>2
  <2>4. excused \subseteq excused' /\ dropped' \subseteq excused'
    BY <1>5, <2>1 DEF LineInv, NoLineLost
  <2> QED
    BY <1>0, <1>5, <2>3, <2>4, LinesStay
<1>6. ASSUME NEW h \in Handler, WriteLine(h) \/ SetLine(h) PROVE LineInv'
  <2>1. Handlers
    BY <1>4, <1>6 DEF ShopHandlerStep
  <2>2. CASE UNCHANGED <<cart, excused>>
    BY <1>1, <1>6, <2>1, <2>2 DEF WriteLine, SetLine
  <2>3. CASE ~UNCHANGED <<cart, excused>>
    <3>1. UNCHANGED <<ordered, dropped>>
      BY <1>6 DEF WriteLine, SetLine
    <3>2. PICK qty, total : PutLine(req[h].form.user, req[h].id, qty, total)
      BY <1>6, <2>3 DEF WriteLine, SetLine
    <3> QED
      BY <1>5, <2>1, <3>1, <3>2
  <2> QED
    BY <2>2, <2>3
<1>7. ASSUME NEW h \in Handler, CheckoutClear(h) PROVE LineInv'
  <2>1. Handlers
    BY <1>4, <1>7 DEF ShopHandlerStep
  <2>2. at[h] = "checkout.clear" /\ RequestOK(at[h], req[h])
    BY <1>0, <1>7 DEF CheckoutClear, Requests
  <2>3. req[h].form.user \in Customer /\ Lost(req[h].form.user, req[h].base.lines) = {}
    BY <2>2 DEF RequestOK, LineInv
  <2> QED
    BY <1>0, <1>7, <2>1, <2>3, LinesCleared DEF CheckoutClear
<1>8. ASSUME NEW h \in Handler, ReadLine(h) \/ CheckoutFails(h) \/ WriteWish(h) \/ WriteReview(h)
      PROVE  LineInv'
  <2>1. Handlers
    BY <1>4, <1>8 DEF ShopHandlerStep
  <2> QED
    BY <1>1, <1>8, <2>1 DEF ReadLine, CheckoutFails, WriteWish, WriteReview, shop, shopHistory
<1>9. ASSUME NEW h \in Handler, NEW u \in Customer, CustomerStep(h, u) PROVE LineInv'
  <2>1. CASE Checkout(h, u)
    BY <1>0, <2>1, CheckoutBegins
  <2>2. ASSUME NEW step, NEW request, step # "checkout.clear", Accept(h, step, request)
        PROVE  Handlers
    BY <1>0, <2>2 DEF Accept, Requests
  <2>3. ASSUME NEW p, NEW qty, AddToCart(h, u, p, qty) \/ UpdateQty(h, u, p, qty) PROVE LineInv'
    <3>1. Handlers
      BY <2>2, <2>3 DEF AddToCart, UpdateQty
    <3> QED
      BY <1>1, <2>3, <3>1 DEF AddToCart, UpdateQty, shop, shopHistory
  <2>4. ASSUME NEW p, NEW rating, AddToWishlist(h, u, p) \/ CreateReview(h, u, p, rating)
        PROVE  LineInv'
    <3>1. Handlers
      BY <2>2, <2>4 DEF AddToWishlist, CreateReview
    <3> QED
      BY <1>1, <2>4, <3>1 DEF AddToWishlist, CreateReview, shop, shopHistory
  <2> QED
    BY <1>9, <2>1, <2>3, <2>4 DEF CustomerStep
<1>10. ASSUME NEW u \in Customer, CustomerCall(u) PROVE LineInv'
  <2>1. UNCHANGED <<at, req>>
    BY <1>0, <1>10, OtherRequests
  <2>2. ASSUME NEW p, RemoveLine(u, p) PROVE LineInv'
    <3> DEFINE lines == without(cart[u], p)
    <3>1. cart' = [cart EXCEPT ![u] = lines] /\ UNCHANGED <<ordered, excused, dropped>>
      BY <2>2 DEF RemoveLine
    <3>2. \A q \in DOMAIN lines : q \in DOMAIN cart[u] /\ lines[q] = cart[u][q]
      BY DEF without
    <3> HIDE DEF lines
    <3>3. \A v \in Customer : \A q \in DOMAIN cart'[v] :
             q \in DOMAIN cart[v] /\ cart'[v][q] = cart[v][q]
      BY <1>0, <3>1, <3>2 DEF Carts
    <3> QED
      BY <1>0, <2>1, <3>1, <3>3, LinesStay DEF LineInv, NoLineLost
  <2>3. CASE ConfirmClears(u)
    <3>1. Lost(u, NoLines) = {}
      BY <2>3 DEF ConfirmClears, Lost, LineInv
    <3> QED
      BY <1>0, <2>1, <2>3, <3>1, LinesCleared DEF ConfirmClears
  <2>4. CASE ClearCart(u)
    <3>1. /\ UNCHANGED <<ordered, excused, dropped>>
          /\ \A v \in Customer : \A q \in DOMAIN cart'[v] :
                q \in DOMAIN cart[v] /\ cart'[v][q] = cart[v][q]
      BY <1>0, <2>4 DEF ClearCart, Emptied, NoLines, Carts
    <3> QED
      BY <1>0, <2>1, <3>1, LinesStay DEF LineInv, NoLineLost
  <2>5. ASSUME NEW p, RemoveFromWishlist(u, p) PROVE LineInv'
    BY <1>1, <2>1, <2>5 DEF RemoveFromWishlist, shopHistory
  <2> QED
    BY <1>10, <2>2, <2>3, <2>4, <2>5 DEF CustomerCall
<1>11. ASSUME (\E q \in reviews : RemoveReview(q)) \/ (\E line \in unsold : SellLine(line[1], line[2]))
       PROVE  LineInv'
  BY <1>0, <1>1, <1>11, OtherRequests DEF RemoveReview, SellLine, shopHistory
<1> QED
  BY <1>3, <1>6, <1>7, <1>8, <1>9, <1>10, <1>11, SomeStep DEF ShopHandlerStep

\* What a checkout and a confirmation clear
\* (model of createOrder and confirmPayment, order.service.ts, and clearCart): for any
\* number of customers and requests under way, a line that a clear takes away was
\* ordered, or its customer changed it after the checkout had read the cart, or had
\* an order placed, or its product was off sale.
THEOREM NoLineIsLost == Spec => []NoLineLost
<1>1. StorefrontInit => LineInv
  BY DEF StorefrontInit, CatalogueInit, LineInv, NoLineLost
<1>2. ASSUME TypeInv, LineInv, [StorefrontNext]_vars PROVE LineInv'
  <2>1. CASE UNCHANGED vars
    BY <1>2, <2>1 DEF vars, catalogueVars, shop, shopHistory, LineInv, NoLineLost, Lost
  <2> QED
    BY <1>2, <2>1, LineStep
<1>3. LineInv => NoLineLost
  BY DEF LineInv
<1> QED
  BY <1>1, <1>2, <1>3, TypeAlways, PTL DEF Spec

-------------------------------------------------------------------------------
(* References *)

\* No removal of the brand has counted its products.
BrandStays(b) ==
    /\ b \in DOMAIN brands
    /\ \A g \in Handler : at[g] = "brand.delete" => req[g].id # b

\* The references that were not written in a race hold, and no removal that has
\* looked for them is going to break them: nothing refers to a category that
\* a removal has found unused, nor to such a brand.
RefInv ==
    /\ \A g \in Handler : at[g] = "category.delete" => req[g].todo = {}
    /\ \A b \in DOMAIN brands \ raced : ~CategoryLeaving(brands[b], "brands")
    /\ \A p \in DOMAIN products \ raced : /\ ~CategoryLeaving(products[p].category, "products")
                                        /\ BrandStays(products[p].brand)

LEMMA RefInvHolds == RefInv => ReferencesHold
BY DEF RefInv, ReferencesHold, CategoryLeaving, BrandStays

\* Calls of a removal whose first read has let it pass.
Removing == {"category.count", "category.delete", "brand.delete"}

\* What every step but a removal's does: no removal gets on, nothing goes away,
\* and what is written refers to documents that stay, or is marked.
LEMMA ReferencesStay ==
    ASSUME RefInv,
           \A g \in Handler : at'[g] \in Removing => at[g] = at'[g] /\ req'[g] = req[g],
           DOMAIN categories \subseteq DOMAIN categories', DOMAIN brands \subseteq DOMAIN brands',
           raced \subseteq raced',
           \A b \in DOMAIN brands' \ raced' :
              \/ b \in DOMAIN brands /\ brands'[b] = brands[b]
              \/ ~CategoryLeaving(brands'[b], "brands"),
           \A p \in DOMAIN products' \ raced' :
              \/ /\ p \in DOMAIN products
                 /\ products'[p].category = products[p].category
                 /\ products'[p].brand = products[p].brand
              \/ /\ ~CategoryLeaving(products'[p].category, "products")
                 /\ BrandStays(products'[p].brand)
    PROVE  RefInv'
<1>1. ASSUME NEW g \in Handler, at'[g] = "category.delete" PROVE req'[g].todo = {}
  BY <1>1 DEF RefInv, Removing
<1>2. ASSUME NEW c, NEW what, CategoryLeaving(c, what)' PROVE CategoryLeaving(c, what)
  BY <1>2 DEF CategoryLeaving, Removing
<1>3. ASSUME NEW b, BrandStays(b) PROVE BrandStays(b)'
  BY <1>3 DEF BrandStays, Removing
<1>4. ASSUME NEW b \in DOMAIN brands' \ raced' PROVE ~CategoryLeaving(brands[b], "brands")'
  <2>1. ~CategoryLeaving(brands'[b], "brands")
    BY DEF RefInv
  <2> QED
    BY <1>2, <2>1 DEF CategoryLeaving
<1>5. ASSUME NEW p \in DOMAIN products' \ raced'
      PROVE  ~CategoryLeaving(products[p].category, "products")' /\ BrandStays(products[p].brand)'
  <2>1. ~CategoryLeaving(products'[p].category, "products") /\ BrandStays(products'[p].brand)
    BY DEF RefInv
  <2>2. BrandStays(products[p].brand)'
    BY <1>3, <2>1 DEF BrandStays
  <2>3. ~CategoryLeaving(products[p].category, "products")'
    BY <1>2, <2>1 DEF CategoryLeaving
  <2> QED
    BY <2>2, <2>3
<1> QED
  BY <1>1, <1>4, <1>5 DEF RefInv

\* A step that changes no document.
LEMMA RemovalsGoOn ==
    ASSUME RefInv, UNCHANGED <<collections, raced>>,
           \A g \in Handler : at'[g] = "category.delete" => req'[g].todo = {},
           \A b \in DOMAIN brands \ raced :
              CategoryLeaving(brands[b], "brands")' => CategoryLeaving(brands[b], "brands"),
           \A p \in DOMAIN products \ raced :
              /\ CategoryLeaving(products[p].category, "products")' =>
                    CategoryLeaving(products[p].category, "products")
              /\ BrandStays(products[p].brand) => BrandStays(products[p].brand)'
    PROVE  RefInv'
BY DEF RefInv, collections

LEMMA ReadsKeepReferences ==
    ASSUME RefInv, Requests, UNCHANGED <<collections, raced>>, NEW h \in Handler, NEW step,
           step \notin Removing, MovedTo(h, step)
    PROVE  RefInv'
<1>1. \A g \in Handler : at'[g] \in Removing => at[g] = at'[g] /\ req'[g] = req[g]
  BY DEF MovedTo
<1> QED
  BY <1>1, ReferencesStay DEF collections

LEMMA Quiet ==
    ASSUME Requests, NEW h \in Handler
    PROVE  /\ \A step, request : Accept(h, step, request) => MovedTo(h, step)
           /\ \A step : GoTo(h, step) => MovedTo(h, step)
           /\ Answer(h) => MovedTo(h, "idle")
           /\ \A passes, step : Continue(h, passes, step) =>
                                MovedTo(h, step) \/ MovedTo(h, "idle")
BY DEF Requests, Accept, GoTo, Answer, Continue, MovedTo

\* Requests that only read, those of removals apart.
LEMMA ReferencesRead ==
    ASSUME RefInv, Requests, NEW h \in Handler,
           \/ \E name \in Name : CreateCategory(h, name)
           \/ \E c \in Category, name \in Name : UpdateCategory(h, c, name)
           \/ UpdateCategoryExists(h)
           \/ \E c \in Category : CreateBrand(h, c)
           \/ \E b \in Brand, c \in Category : UpdateBrand(h, b, c)
           \/ UpdateBrandCategory(h)
           \/ \E b \in Brand : DeleteBrandLoad(h, b)
           \/ \E form \in Form : CreateProduct(h, form)
           \/ \E p \in Product, form \in Form : UpdateProduct(h, p, form)
           \/ UpdateProductCategory(h) \/ CheckBrand(h) \/ CheckSku(h) \/ FindSlug(h)
           \/ \E p \in Product : DeleteProductLoad(h, p)
    PROVE  RefInv'
<1> DEFINE Goal == UNCHANGED <<collections, raced>> /\ \E step : step \notin Removing /\ MovedTo(h, step)
<1> USE DEF Reading
<1>1. ASSUME NEW step, NEW request, step \notin Removing, Accept(h, step, request), Reading
      PROVE  Goal
  BY <1>1, Quiet
<1>2. ASSUME NEW step, NEW passes, step \notin Removing, Continue(h, passes, step), Reading
      PROVE  Goal
  BY <1>2, Quiet DEF Removing
<1>3. ASSUME Answer(h), Reading PROVE Goal
  BY <1>3, Quiet DEF Removing
<1>4. CASE \/ \E name \in Name : CreateCategory(h, name)
           \/ \E c \in Category, name \in Name : UpdateCategory(h, c, name)
           \/ \E c \in Category : CreateBrand(h, c)
           \/ \E b \in Brand, c \in Category : UpdateBrand(h, b, c)
           \/ \E b \in Brand : DeleteBrandLoad(h, b)
  <2> HIDE DEF Reading, Goal
  <2>1. ASSUME NEW name \in Name, CreateCategory(h, name) PROVE Goal
    <3>1. "category.insert" \notin Removing
      BY DEF Removing
    <3>2. PICK request : Accept(h, "category.insert", request) /\ Reading
      BY <2>1 DEF CreateCategory
    <3> QED
      BY <1>1, <3>1, <3>2
  <2>2. ASSUME NEW c \in Category, NEW name \in Name, UpdateCategory(h, c, name) PROVE Goal
    <3>1. "category.exists" \notin Removing
      BY DEF Removing
    <3>2. PICK request : Accept(h, "category.exists", request) /\ Reading
      BY <2>2 DEF UpdateCategory
    <3> QED
      BY <1>1, <3>1, <3>2
  <2>3. ASSUME NEW c \in Category, CreateBrand(h, c) PROVE Goal
    <3>1. "brand.insert" \notin Removing
      BY DEF Removing
    <3>2. PICK request : Accept(h, "brand.insert", request) /\ Reading
      BY <2>3 DEF CreateBrand
    <3> QED
      BY <1>1, <3>1, <3>2
  <2>4. ASSUME NEW b \in Brand, NEW c \in Category, UpdateBrand(h, b, c) PROVE Goal
    <3>1. "brand.category" \notin Removing
      BY DEF Removing
    <3>2. PICK request : Accept(h, "brand.category", request) /\ Reading
      BY <2>4 DEF UpdateBrand
    <3> QED
      BY <1>1, <3>1, <3>2
  <2>5. ASSUME NEW b \in Brand, DeleteBrandLoad(h, b) PROVE Goal
    <3>1. "brand.count" \notin Removing
      BY DEF Removing
    <3>2. PICK request : Accept(h, "brand.count", request) /\ Reading
      BY <2>5 DEF DeleteBrandLoad
    <3> QED
      BY <1>1, <3>1, <3>2
  <2> QED
    BY <1>4, <2>1, <2>2, <2>3, <2>4, <2>5, ReadsKeepReferences DEF Goal
<1>5. CASE \/ \E form \in Form : CreateProduct(h, form)
           \/ \E p \in Product, form \in Form : UpdateProduct(h, p, form)
           \/ \E p \in Product : DeleteProductLoad(h, p)
  <2> HIDE DEF Reading, Goal
  <2>1. ASSUME NEW form \in Form, CreateProduct(h, form) PROVE Goal
    <3>1. "product.brand" \notin Removing
      BY DEF Removing
    <3>2. PICK request : Accept(h, "product.brand", request) /\ Reading
      BY <2>1 DEF CreateProduct
    <3> QED
      BY <1>1, <3>1, <3>2
  <2>2. ASSUME NEW p \in Product, NEW form \in Form, UpdateProduct(h, p, form) PROVE Goal
    <3>1. "product.category" \notin Removing
      BY DEF Removing
    <3>2. PICK request : Accept(h, "product.category", request) /\ Reading
      BY <2>2 DEF UpdateProduct
    <3> QED
      BY <1>1, <3>1, <3>2
  <2>3. ASSUME NEW p \in Product, DeleteProductLoad(h, p) PROVE Goal
    <3>1. "product.delete" \notin Removing
      BY DEF Removing
    <3>2. PICK request : Accept(h, "product.delete", request) /\ Reading
      BY <2>3 DEF DeleteProductLoad
    <3> QED
      BY <1>1, <3>1, <3>2
  <2> QED
    BY <1>5, <2>1, <2>2, <2>3, ReadsKeepReferences DEF Goal
<1>6. CASE UpdateCategoryExists(h) \/ UpdateBrandCategory(h) \/ CheckBrand(h) \/ CheckSku(h)
  <2> HIDE DEF Reading
  <2>1. Goal
    BY <1>2, <1>6 DEF UpdateCategoryExists, UpdateBrandCategory, CheckBrand, CheckSku, Removing
  <2> QED
    BY <2>1, ReadsKeepReferences
<1>7. CASE UpdateProductCategory(h)
  <2>1. CASE Answer(h)
    BY <1>3, <1>7, <2>1, ReadsKeepReferences DEF UpdateProductCategory
  <2>2. CASE ~Answer(h)
    <3>1. at' = [at EXCEPT ![h] = "product.brand"]
          /\ req' = [req EXCEPT ![h] = ReadCategory(req[h].form, req[h].base, req[h].id)]
      BY <1>7, <2>2 DEF UpdateProductCategory
    <3>2. MovedTo(h, "product.brand")
      BY <3>1 DEF MovedTo, Requests
    <3> QED
      BY <1>7, <3>2, ReadsKeepReferences DEF UpdateProductCategory, Removing
  <2> QED
    BY <2>1, <2>2
<1>8. CASE FindSlug(h)
  <2> DEFINE next == IF req[h].id = NoId THEN "product.insert" ELSE "product.save"
  <2>1. CASE SlugTaken(<<req[h].form.name, req[h].slug>>, req[h].id)
    <3>1. at[h] = "product.slug" /\ at' = at /\ \A g \in Handler \ {h} : req'[g] = req[g]
      BY <1>8, <2>1 DEF FindSlug, Requests
    <3>2. MovedTo(h, "product.slug")
      BY <3>1 DEF MovedTo
    <3> QED
      BY <1>8, <3>2, ReadsKeepReferences DEF FindSlug, Removing
  <2>2. CASE ~SlugTaken(<<req[h].form.name, req[h].slug>>, req[h].id)
    <3>1. PICK passes : Continue(h, passes, next)
      BY <1>8, <2>2 DEF FindSlug
    <3>2. next \notin Removing
      BY DEF Removing
    <3> HIDE DEF next
    <3>3. Goal
      BY <1>2, <1>8, <3>1, <3>2 DEF FindSlug
    <3> QED
      BY <3>3, ReadsKeepReferences
  <2> QED
    BY <2>1, <2>2
<1> QED
  BY <1>4, <1>5, <1>6, <1>7, <1>8

\* Requests that write, those of removals apart.
LEMMA ReferencesWritten ==
    ASSUME RefInv, Requests, Documents, NEW h \in Handler,
           \/ \E c \in Category : InsertCategory(h, c)
           \/ SaveCategory(h)
           \/ \E b \in Brand : InsertBrand(h, b)
           \/ SaveBrand(h)
           \/ \E p \in Product : InsertProduct(h, p)
           \/ SaveProduct(h)
           \/ DeleteProduct(h)
    PROVE  RefInv'
<1> DEFINE Handlers == \A g \in Handler : at'[g] \in Removing => at[g] = at'[g] /\ req'[g] = req[g]
           Written(doc) == ~CategoryLeaving(doc.category, "products") /\ BrandStays(doc.brand)
           Kept(p) == /\ p \in DOMAIN products
                      /\ products'[p].category = products[p].category
                      /\ products'[p].brand = products[p].brand
<1>1. ASSUME Answer(h) PROVE Handlers
  BY <1>1, Quiet DEF MovedTo, Removing
<1>2. ASSUME NEW c \in Category, InsertCategory(h, c) PROVE RefInv'
  <2>1. DOMAIN categories \subseteq DOMAIN categories' /\ UNCHANGED <<brands, products, raced>>
    BY <1>2 DEF InsertCategory, with
  <2>2. Handlers
    BY <1>1, <1>2 DEF InsertCategory
  <2> QED
    BY <2>1, <2>2, ReferencesStay
<1>3. CASE SaveCategory(h)
  <2>1. DOMAIN categories \subseteq DOMAIN categories' /\ UNCHANGED <<brands, products, raced>>
    BY <1>3 DEF SaveCategory
  <2>2. Handlers
    BY <1>1, <1>3 DEF SaveCategory
  <2> QED
    BY <2>1, <2>2, ReferencesStay
<1>4. ASSUME NEW b \in Brand, InsertBrand(h, b) PROVE RefInv'
  <2> DEFINE c == req[h].form.category
  <2>1. /\ brands' = with(brands, b, c) /\ UNCHANGED <<categories, products>>
        /\ raced' = IF CategoryLeaving(c, "brands") THEN raced \cup {b} ELSE raced
    BY <1>4 DEF InsertBrand
  <2>2. Handlers
    BY <1>1, <1>4 DEF InsertBrand
  <2>3. ASSUME NEW x \in DOMAIN brands' \ raced'
        PROVE  \/ x \in DOMAIN brands /\ brands'[x] = brands[x]
               \/ ~CategoryLeaving(brands'[x], "brands")
    BY <2>1 DEF with
  <2>4. DOMAIN brands \subseteq DOMAIN brands' /\ raced \subseteq raced'
    BY <2>1 DEF with
  <2> QED
    BY <2>1, <2>2, <2>3, <2>4, ReferencesStay
<1>5. CASE SaveBrand(h)
  <2> DEFINE r == req[h]
             c == r.form.category
             writes == r.id \in DOMAIN brands /\ r.form # r.base
  <2>1. /\ brands' = IF writes THEN [brands EXCEPT ![r.id] = c] ELSE brands
        /\ raced' = IF writes /\ CategoryLeaving(c, "brands") THEN raced \cup {r.id} ELSE raced
        /\ UNCHANGED <<categories, products>>
    BY <1>5 DEF SaveBrand
  <2>2. Handlers
    BY <1>1, <1>5 DEF SaveBrand
  <2> HIDE DEF c, r
  <2>3. ASSUME NEW x \in DOMAIN brands' \ raced'
        PROVE  \/ x \in DOMAIN brands /\ brands'[x] = brands[x]
               \/ ~CategoryLeaving(brands'[x], "brands")
    BY <2>1
  <2>4. DOMAIN brands \subseteq DOMAIN brands' /\ raced \subseteq raced'
    BY <2>1
  <2> QED
    BY <2>1, <2>2, <2>3, <2>4, ReferencesStay
<1>6. ASSUME NEW doc, ~ReferenceLost(doc) PROVE Written(doc)
  BY <1>6 DEF ReferenceLost, BrandStays
<1>7. ASSUME NEW p \in Product, InsertProduct(h, p) PROVE RefInv'
  <2> DEFINE doc == Filled(req[h])
  <2>1. /\ UNCHANGED <<categories, brands>>
        /\ \/ UNCHANGED <<products, raced>>
           \/ /\ products' = with(products, p, doc)
              /\ raced' = IF ReferenceLost(doc) THEN raced \cup {p} ELSE raced
    BY <1>7 DEF InsertProduct
  <2>2. Handlers
    BY <1>1, <1>7 DEF InsertProduct
  <2> HIDE DEF doc
  <2>3. ASSUME NEW x \in DOMAIN products' \ raced' PROVE Kept(x) \/ Written(products'[x])
    <3>1. CASE UNCHANGED <<products, raced>>
      BY <3>1
    <3>2. CASE ~UNCHANGED <<products, raced>>
      <4>1. products' = with(products, p, doc)
        BY <2>1, <3>2
      <4>2. CASE x = p
        BY <1>6, <2>1, <3>2, <4>1, <4>2 DEF with
      <4>3. CASE x # p
        BY <4>1, <4>3 DEF with
      <4> QED
        BY <4>2, <4>3
    <3> QED
      BY <3>1, <3>2
  <2>4. raced \subseteq raced'
    BY <2>1
  <2> QED
    BY <2>1, <2>2, <2>3, <2>4, ReferencesStay
<1>8. CASE SaveProduct(h)
  <2> DEFINE r == req[h]
             p == r.id
             doc == SavedPaths(products[p], r.base, Filled(r))
             marked == \/ Mixed(products[p], r.base)
                       \/ Repointed(products[p], doc) /\ ReferenceLost(doc)
  <2>1. /\ UNCHANGED <<categories, brands>>
        /\ \/ UNCHANGED <<products, raced>>
           \/ /\ p \in DOMAIN products
              /\ products' = [products EXCEPT ![p] = doc]
              /\ raced' = IF marked THEN raced \cup {p} ELSE raced
    BY <1>8 DEF SaveProduct
  <2>2. Handlers
    BY <1>1, <1>8 DEF SaveProduct
  <2>3. ~marked => \/ doc.category = products[p].category /\ doc.brand = products[p].brand
                   \/ ~ReferenceLost(doc)
    BY DEF Repointed
  <2> HIDE DEF r, doc, marked
  <2>4. ASSUME NEW x \in DOMAIN products' \ raced' PROVE Kept(x) \/ Written(products'[x])
    <3>1. CASE UNCHANGED <<products, raced>>
      BY <3>1
    <3>2. CASE ~UNCHANGED <<products, raced>>
      <4>1. p \in DOMAIN products /\ products' = [products EXCEPT ![p] = doc]
        BY <2>1, <3>2
      <4>2. CASE x = p
        <5>1. ~marked
          BY <2>1, <3>2, <4>2
        <5>2. products'[p] = doc
          BY <4>1
        <5> QED
          BY <1>6, <2>3, <4>1, <4>2, <5>1, <5>2
      <4>3. CASE x # p
        BY <4>1, <4>3
      <4> QED
        BY <4>2, <4>3
    <3> QED
      BY <3>1, <3>2
  <2>5. raced \subseteq raced'
    BY <2>1
  <2> QED
    BY <2>1, <2>2, <2>4, <2>5, ReferencesStay
<1>9. CASE DeleteProduct(h)
  <2>1. /\ products' = without(products, req[h].id) /\ UNCHANGED <<categories, brands, raced>>
    BY <1>9 DEF DeleteProduct
  <2>2. Handlers
    BY <1>1, <1>9 DEF DeleteProduct
  <2>3. \A x \in DOMAIN products' : Kept(x)
    BY <2>1 DEF without
  <2> QED
    BY <2>1, <2>2, <2>3, ReferencesStay
<1> QED
  BY <1>2, <1>3, <1>4, <1>5, <1>7, <1>8, <1>9

\* The steps of removals.
LEMMA ReferencesRemoved ==
    ASSUME RefInv, Requests, NEW h \in Handler,
           \/ \E c \in Category : RemoveCategory(h, c)
           \/ \E what \in {"products", "brands"} : CountInCategory(h, what)
           \/ DeleteCategory(h)
           \/ CountOfBrand(h)
           \/ DeleteBrand(h)
    PROVE  RefInv'
<1> DEFINE r == req[h]
<1>1. ASSUME NEW c \in Category, RemoveCategory(h, c) PROVE RefInv'
  <2> DEFINE q == [IdleRequest EXCEPT !.id = c, !.todo = {"products", "brands"}]
  <2>1. /\ at' = [at EXCEPT ![h] = "category.count"] /\ req' = [req EXCEPT ![h] = q]
        /\ UNCHANGED <<collections, raced>>
    BY <1>1 DEF RemoveCategory, Accept, Reading
  <2>2. q.todo = {"products", "brands"}
    BY DEF IdleRequest
  <2> HIDE DEF q
  <2>3. /\ at'[h] = "category.count" /\ req'[h].todo = {"products", "brands"}
        /\ \A g \in Handler \ {h} : at'[g] = at[g] /\ req'[g] = req[g]
    BY <2>1, <2>2 DEF Requests
  <2>4. ASSUME NEW d, NEW what \in {"products", "brands"}, CategoryLeaving(d, what)'
        PROVE  CategoryLeaving(d, what)
    BY <2>1, <2>3, <2>4 DEF CategoryLeaving, collections
  <2>5. ASSUME NEW b, BrandStays(b) PROVE BrandStays(b)'
    BY <2>1, <2>3, <2>5 DEF BrandStays, collections
  <2>6. \A g \in Handler : at'[g] = "category.delete" => req'[g].todo = {}
    BY <2>3 DEF RefInv
  <2> QED
    BY <2>1, <2>4, <2>5, <2>6 DEF RefInv, collections
<1>2. ASSUME Answer(h), UNCHANGED <<collections, raced>> PROVE RefInv'
  BY <1>2, Quiet, ReadsKeepReferences DEF Removing
<1>3. ASSUME NEW what \in {"products", "brands"}, CountInCategory(h, what), ~Answer(h)
      PROVE  RefInv'
  <2> DEFINE q == [r EXCEPT !.todo = @ \ {what}]
             step == IF r.todo = {what} THEN "category.delete" ELSE "category.count"
             found == IF what = "products" THEN \E p \in DOMAIN products : products[p].category = r.id
                      ELSE \E b \in DOMAIN brands : brands[b] = r.id
  <2>1. /\ at' = [at EXCEPT ![h] = step] /\ req' = [req EXCEPT ![h] = q]
        /\ at[h] = "category.count" /\ UNCHANGED <<collections, raced>>
        /\ ~found
    BY <1>3 DEF CountInCategory, Reading
  <2>2. RequestOK(at[h], r)
    BY DEF Requests
  <2>3. q.todo = r.todo \ {what} /\ q.id = r.id
    BY <2>2 DEF RequestOK, Fields
  <2>4. step \in {"category.delete", "category.count"} /\ (step = "category.delete" => q.todo = {})
    BY <2>3
  <2> HIDE DEF q, step
  <2>5. /\ at'[h] = step /\ req'[h].todo = r.todo \ {what} /\ req'[h].id = r.id
        /\ req'[h].todo = q.todo
        /\ \A g \in Handler \ {h} : at'[g] = at[g] /\ req'[g] = req[g]
    BY <2>1, <2>3 DEF Requests
  <2>6. ASSUME NEW d, NEW kind, d # r.id \/ kind # what, CategoryLeaving(d, kind)'
        PROVE  CategoryLeaving(d, kind)
    BY <2>1, <2>4, <2>5, <2>6 DEF CategoryLeaving, collections
  <2>7. ASSUME NEW b, BrandStays(b) PROVE BrandStays(b)'
    BY <2>1, <2>4, <2>5, <2>7 DEF BrandStays, collections
  <2>8. \A g \in Handler : at'[g] = "category.delete" => req'[g].todo = {}
    BY <2>4, <2>5 DEF RefInv
  <2>9. ASSUME NEW b \in DOMAIN brands \ raced, CategoryLeaving(brands[b], "brands")'
        PROVE  CategoryLeaving(brands[b], "brands")
    <3>1. brands[b] # r.id \/ "brands" # what
      BY <2>1
    <3> QED
      BY <2>1, <2>6, <2>9, <3>1 DEF collections
  <2>10. ASSUME NEW p \in DOMAIN products \ raced, CategoryLeaving(products[p].category, "products")'
         PROVE  CategoryLeaving(products[p].category, "products")
    <3>1. products[p].category # r.id \/ "products" # what
      BY <2>1
    <3> QED
      BY <2>1, <2>6, <2>10, <3>1 DEF collections
  <2> QED
    BY <2>1, <2>7, <2>8, <2>9, <2>10, RemovalsGoOn DEF collections
<1>4. CASE DeleteCategory(h)
  <2>1. /\ at[h] = "category.delete" /\ UNCHANGED <<brands, products, raced>>
        /\ DOMAIN categories' = DOMAIN categories \ {r.id} /\ Answer(h)
    BY <1>4 DEF DeleteCategory, without
  <2>2. at'[h] = "idle" /\ \A g \in Handler \ {h} : at'[g] = at[g] /\ req'[g] = req[g]
    BY <2>1, Quiet DEF MovedTo
  <2>3. \A what : CategoryLeaving(r.id, what)
    BY <2>1 DEF CategoryLeaving, RefInv
  <2>4. ASSUME NEW d, NEW what, CategoryLeaving(d, what)' PROVE CategoryLeaving(d, what)
    BY <2>1, <2>2, <2>3, <2>4 DEF CategoryLeaving
  <2>5. ASSUME NEW b, BrandStays(b) PROVE BrandStays(b)'
    BY <2>1, <2>2, <2>5 DEF BrandStays
  <2>6. \A g \in Handler : at'[g] = "category.delete" => req'[g].todo = {}
    BY <2>2 DEF RefInv
  <2> QED
    BY <2>1, <2>4, <2>5, <2>6 DEF RefInv
<1>5. CASE CountOfBrand(h)
  <2>1. CASE Answer(h)
    BY <1>2, <1>5, <2>1 DEF CountOfBrand, Reading
  <2>2. CASE ~Answer(h)
    <3>1. /\ at' = [at EXCEPT ![h] = "brand.delete"] /\ UNCHANGED req
          /\ UNCHANGED <<collections, raced>>
          /\ ~\E p \in DOMAIN products : products[p].brand = r.id
      BY <1>5, <2>2 DEF CountOfBrand, Continue, GoTo, Reading
    <3>2. at'[h] = "brand.delete" /\ \A g \in Handler \ {h} : at'[g] = at[g]
      BY <3>1 DEF Requests
    <3>3. ASSUME NEW d, NEW what, CategoryLeaving(d, what)' PROVE CategoryLeaving(d, what)
      BY <3>1, <3>2, <3>3 DEF CategoryLeaving, collections
    <3>4. ASSUME NEW p \in DOMAIN products, BrandStays(products[p].brand)
          PROVE  BrandStays(products[p].brand)'
      BY <3>1, <3>2, <3>4 DEF BrandStays, collections
    <3>5. \A g \in Handler : at'[g] = "category.delete" => req'[g].todo = {}
      BY <3>1, <3>2 DEF RefInv
    <3> QED
      BY <3>1, <3>3, <3>4, <3>5 DEF RefInv, collections
  <2> QED
    BY <2>1, <2>2
<1>6. CASE DeleteBrand(h)
  <2>1. /\ at[h] = "brand.delete" /\ UNCHANGED <<categories, products, raced>>
        /\ DOMAIN brands' = DOMAIN brands \ {r.id} /\ Answer(h)
        /\ \A b \in DOMAIN brands' : brands'[b] = brands[b]
    BY <1>6 DEF DeleteBrand, without
  <2>2. at'[h] = "idle" /\ \A g \in Handler \ {h} : at'[g] = at[g] /\ req'[g] = req[g]
    BY <2>1, Quiet DEF MovedTo
  <2>3. ASSUME NEW d, NEW what, CategoryLeaving(d, what)' PROVE CategoryLeaving(d, what)
    BY <2>1, <2>2, <2>3 DEF CategoryLeaving
  <2>4. ASSUME NEW b, BrandStays(b) PROVE BrandStays(b)'
    BY <2>1, <2>2, <2>4 DEF BrandStays
  <2>5. \A g \in Handler : at'[g] = "category.delete" => req'[g].todo = {}
    BY <2>2 DEF RefInv
  <2> QED
    BY <2>1, <2>3, <2>4, <2>5 DEF RefInv
<1> QED
  BY <1>1, <1>2, <1>3, <1>4, <1>5, <1>6 DEF CountInCategory, Reading

LEMMA ReferencesOfCustomers ==
    ASSUME TypeInv, RefInv, StorefrontNext, ~\E h \in Handler : AdminStep(h)
    PROVE  RefInv'
<1>0. Requests /\ Documents /\ Belongings
  BY DEF TypeInv
<1>1. ASSUME NEW h \in Handler, ShopHandlerStep(h) PROVE RefInv'
  BY <1>0, <1>1, ShopHandlerRequests, ShopDocuments, ReadsKeepReferences DEF Removing
<1>2. ASSUME NEW h \in Handler, NEW u \in Customer, CustomerStep(h, u) PROVE RefInv'
  <2>1. PICK step \in ShopStep : MovedTo(h, step)
    BY <1>0, <1>2, CustomerRequests
  <2>2. step \notin Removing
    BY DEF Removing, ShopStep
  <2> QED
    BY <1>0, <1>2, <2>1, <2>2, ShopDocuments, ReadsKeepReferences
<1>3. ASSUME (\E u \in Customer : CustomerCall(u)) \/ (\E r \in reviews : RemoveReview(r))
      PROVE  RefInv'
  <2>1. UNCHANGED <<at, req, collections, raced>>
    BY <1>0, <1>3, OtherRequests, ShopDocuments
  <2> QED
    BY <2>1 DEF RefInv, CategoryLeaving, BrandStays, collections
<1>4. ASSUME NEW line \in unsold, SellLine(line[1], line[2]) PROVE RefInv'
  <2>1. UNCHANGED <<at, req, categories, brands, raced>>
    BY <1>0, <1>4 DEF SellLine
  <2>2. /\ DOMAIN products' = DOMAIN products
        /\ \A p \in DOMAIN products : /\ products'[p].category = products[p].category
                                     /\ products'[p].brand = products[p].brand
    BY <1>0, <1>4, SellLineDocuments
  <2> QED
    BY <2>1, <2>2, ReferencesStay
<1> QED
  BY <1>1, <1>2, <1>3, <1>4, SomeStep

\* The references between documents
\* (models of category.service.ts, brand.service.ts, product.service.ts): for any
\* number of requests under way, a brand's category and a product's brand and
\* category are there, unless they were written in a race with their removal or
\* with another update of the product.
THEOREM ReferencesAlwaysHold == Spec => []ReferencesHold
<1>1. StorefrontInit => RefInv
  <2>1. ASSUME StorefrontInit PROVE \A g \in Handler : at[g] = "idle"
    BY <2>1 DEF StorefrontInit, CatalogueInit
  <2>2. ASSUME StorefrontInit PROVE categories = Seed.categories /\ brands = Seed.brands
                                    /\ products = Seed.products
    BY <2>2 DEF StorefrontInit, CatalogueInit
  <2> QED
    BY <2>1, <2>2, CatalogueAssumption DEF RefInv, CategoryLeaving, BrandStays
<1>2. ASSUME TypeInv, RefInv, [StorefrontNext]_vars PROVE RefInv'
  <2>0. Requests /\ Documents
    BY <1>2 DEF TypeInv
  <2>1. CASE UNCHANGED vars
    BY <1>2, <2>1 DEF vars, catalogueVars, collections, RefInv, CategoryLeaving, BrandStays
  <2>2. ASSUME NEW h \in Handler, AdminStep(h) PROVE RefInv'
    <3>1. CatalogueStep(h)
      BY <2>2 DEF AdminStep
    <3> QED
      BY <1>2, <2>0, <3>1, ReferencesRead, ReferencesWritten, ReferencesRemoved DEF CatalogueStep
  <2> QED
    BY <1>2, <2>1, <2>2, ReferencesOfCustomers
<1> QED
  BY <1>1, <1>2, RefInvHolds, TypeAlways, PTL DEF Spec

-------------------------------------------------------------------------------
(* The pages of a listing *)

\* s lists S with its keys rising.
Rising(s, S, key) ==
    /\ s \in [1..Cardinality(S) -> S]
    /\ \A i, j \in 1..Cardinality(S) : i < j => s[i] # s[j] /\ key[s[i]] <= key[s[j]]

\* The members of S up to p, and their number.
UpTo(p, S, key) == {q \in S : key[q] <= key[p]}
Place(S, key) == [p \in S |-> Cardinality(UpTo(p, S, key))]

\* What the keys of a set tell apart has a place of its own among its members.
LEMMA PlaceIs ==
    ASSUME NEW S, IsFiniteSet(S), NEW key \in [S -> Int],
           \A p, q \in S : key[p] = key[q] => p = q
    PROVE  /\ Place(S, key) \in Surjection(S, 1..Cardinality(S))
           /\ \A p, q \in S : Place(S, key)[p] < Place(S, key)[q] => key[p] < key[q]
           /\ \A p, q \in S : Place(S, key)[p] = Place(S, key)[q] => p = q
<1> DEFINE n == Cardinality(S)
           place == Place(S, key)
           upTo(p) == UpTo(p, S, key)
<1>1. n \in Nat
  BY FS_CardinalityType
<1>2. \A p \in S : /\ upTo(p) \in SUBSET S /\ p \in upTo(p)
                   /\ IsFiniteSet(upTo(p)) /\ Cardinality(upTo(p)) \in 1..n
  <2> SUFFICES ASSUME NEW p \in S
               PROVE  /\ upTo(p) \in SUBSET S /\ p \in upTo(p)
                      /\ IsFiniteSet(upTo(p)) /\ Cardinality(upTo(p)) \in 1..n
    OBVIOUS
  <2>1. upTo(p) \in SUBSET S /\ p \in upTo(p)
    BY DEF UpTo
  <2>2. IsFiniteSet(upTo(p)) /\ Cardinality(upTo(p)) <= n
    BY <2>1, FS_Subset
  <2>3. Cardinality(upTo(p)) \in Nat /\ Cardinality(upTo(p)) # 0
    BY <2>1, <2>2, FS_CardinalityType, FS_EmptySet
  <2> QED
    BY <1>1, <2>1, <2>2, <2>3
<1>3. place \in [S -> 1..n] /\ \A p \in S : place[p] = Cardinality(upTo(p))
  BY <1>2 DEF Place
<1>4. \A p, q \in S : key[p] < key[q] => place[p] < place[q]
  <2> SUFFICES ASSUME NEW p \in S, NEW q \in S, key[p] < key[q] PROVE place[p] < place[q]
    OBVIOUS
  <2>1. upTo(p) \in SUBSET upTo(q) /\ q \notin upTo(p)
    BY DEF UpTo
  <2>2. Cardinality(upTo(p)) <= Cardinality(upTo(q)) /\ Cardinality(upTo(p)) # Cardinality(upTo(q))
    BY <1>2, <2>1, FS_Subset
  <2> QED
    BY <1>2, <1>3, <2>2
<1>5. \A p, q \in S : place[p] = place[q] => p = q
  <2> SUFFICES ASSUME NEW p \in S, NEW q \in S, place[p] = place[q], p # q PROVE FALSE
    OBVIOUS
  <2>1. key[p] \in Int /\ key[q] \in Int /\ key[p] # key[q]
    OBVIOUS
  <2>2. place[p] \in Nat /\ place[q] \in Nat
    BY <1>3
  <2>3. key[p] < key[q] \/ key[q] < key[p]
    BY <2>1
  <2> QED
    BY <1>4, <2>2, <2>3
<1>6. \A p, q \in S : place[p] < place[q] => key[p] < key[q]
  <2> SUFFICES ASSUME NEW p \in S, NEW q \in S, place[p] < place[q] PROVE key[p] < key[q]
    OBVIOUS
  <2>1. place[p] \in Nat /\ place[q] \in Nat /\ key[p] \in Int /\ key[q] \in Int
    BY <1>3
  <2>2. ~(key[q] < key[p]) /\ key[p] # key[q]
    BY <1>4, <2>1
  <2> QED
    BY <2>1, <2>2
<1>7. place \in Surjection(S, 1..n)
  <2>1. place \in Injection(S, 1..n)
    BY <1>3, <1>5 DEF Injection, IsInjective
  <2>2. IsFiniteSet(1..n) /\ Cardinality(1..n) = n
    BY <1>1, FS_Interval
  <2> QED
    BY <2>1, <2>2, FS_Injection
<1> QED
  BY <1>5, <1>6, <1>7

\* There is one rising list of a finite set, which has every member at its place.
LEMMA RisingList ==
    ASSUME NEW S, IsFiniteSet(S), NEW key \in [S -> Int],
           \A p, q \in S : key[p] = key[q] => p = q
    PROVE  \E s : /\ Rising(s, S, key)
                  /\ \A p \in S : \E i \in 1..Cardinality(S) : s[i] = p
                  /\ \A t : Rising(t, S, key) => t = s
<1> DEFINE n == Cardinality(S)
           place == Place(S, key)
           s == [i \in 1..n |-> CHOOSE p \in S : place[p] = i]
<1>1. n \in Nat
  BY FS_CardinalityType
<1>2. /\ place \in [S -> 1..n]
      /\ \A i \in 1..n : \E p \in S : place[p] = i
      /\ \A p, q \in S : place[p] < place[q] => key[p] < key[q]
      /\ \A p, q \in S : place[p] = place[q] => p = q
  BY PlaceIs DEF Surjection
<1> HIDE DEF place
<1>3. \A i \in 1..n : s[i] \in S /\ place[s[i]] = i
  BY <1>2
<1>4. s \in [1..n -> S]
  BY <1>3
<1> HIDE DEF s
<1>5. Rising(s, S, key)
  <2>1. ASSUME NEW i \in 1..n, NEW j \in 1..n, i < j
        PROVE  s[i] # s[j] /\ key[s[i]] <= key[s[j]]
    <3>1. key[s[i]] < key[s[j]] /\ key[s[i]] \in Int /\ key[s[j]] \in Int
      BY <1>2, <1>3, <2>1
    <3> QED
      BY <3>1
  <2> QED
    BY <1>4, <2>1 DEF Rising
<1>6. ASSUME NEW t, Rising(t, S, key) PROVE t = s
  <2>1. t \in [1..n -> S] /\ \A i, j \in 1..n : i < j => t[i] # t[j] /\ key[t[i]] <= key[t[j]]
    BY <1>6 DEF Rising
  <2>2. \A i, j \in 1..n : t[i] = t[j] => i = j
    <3> SUFFICES ASSUME NEW i \in 1..n, NEW j \in 1..n, t[i] = t[j], i # j PROVE FALSE
      OBVIOUS
    <3>1. i < j \/ j < i
      BY <1>1
    <3> QED
      BY <2>1, <3>1
  <2>3. t \in Surjection(1..n, S)
    <3>1. t \in Injection(1..n, S)
      BY <2>1, <2>2 DEF Injection, IsInjective
    <3>2. IsFiniteSet(1..n) /\ Cardinality(1..n) = n
      BY <1>1, FS_Interval
    <3> QED
      BY <3>1, <3>2, FS_Injection
  <2>4. \A i, j \in 1..n : key[t[j]] <= key[t[i]] <=> j <= i
    <3> SUFFICES ASSUME NEW i \in 1..n, NEW j \in 1..n PROVE key[t[j]] <= key[t[i]] <=> j <= i
      OBVIOUS
    <3>1. t[i] \in S /\ t[j] \in S /\ key[t[i]] \in Int /\ key[t[j]] \in Int /\ i \in Int /\ j \in Int
      BY <2>1
    <3>2. i < j => key[t[i]] <= key[t[j]] /\ key[t[i]] # key[t[j]]
      BY <2>1, <3>1
    <3>3. j < i => key[t[j]] <= key[t[i]]
      BY <2>1
    <3> QED
      BY <3>1, <3>2, <3>3
  <2>5. \A i \in 1..n : place[t[i]] = i
    <3> SUFFICES ASSUME NEW i \in 1..n PROVE place[t[i]] = i
      OBVIOUS
    <3> DEFINE u == [j \in 1..i |-> t[j]]
    <3>1. t[i] \in S /\ i \in 1..n /\ 1..i \subseteq 1..n
      BY <1>1, <2>1
    <3>2. u \in [1..i -> UpTo(t[i], S, key)]
      BY <1>1, <2>1, <2>4, <3>1 DEF UpTo
    <3>3. \A j, k \in 1..i : u[j] = u[k] => j = k
      BY <2>2, <3>1
    <3>4. \A p \in UpTo(t[i], S, key) : \E j \in 1..i : u[j] = p
      <4> SUFFICES ASSUME NEW p \in S, key[p] <= key[t[i]] PROVE \E j \in 1..i : u[j] = p
        BY DEF UpTo
      <4>1. PICK j \in 1..n : t[j] = p
        BY <2>3 DEF Surjection
      <4>2. j \in 1..i
        BY <1>1, <2>4, <4>1
      <4> QED
        BY <4>1, <4>2
    <3>5. u \in Bijection(1..i, UpTo(t[i], S, key))
      BY <3>2, <3>3, <3>4 DEF Bijection, Injection, IsInjective, Surjection
    <3>6. IsFiniteSet(1..i) /\ Cardinality(1..i) = i
      BY <3>1, FS_Interval
    <3>7. Cardinality(UpTo(t[i], S, key)) = i
      BY <3>5, <3>6, FS_Bijection DEF ExistsBijection
    <3> QED
      BY <3>1, <3>7 DEF place, Place
  <2>6. \A i \in 1..n : t[i] = s[i]
    BY <1>2, <1>3, <2>1, <2>5
  <2>7. t \in [1..n -> S]
    BY <2>1
  <2>8. t = [i \in 1..n |-> t[i]] /\ s = [i \in 1..n |-> s[i]]
    BY <2>7, <1>4
  <2> QED
    BY <2>6, <2>8
<1>7. \A p \in S : \E i \in 1..n : s[i] = p
  <2> SUFFICES ASSUME NEW p \in S PROVE \E i \in 1..n : s[i] = p
    OBVIOUS
  <2>1. place[p] \in 1..n /\ s[place[p]] \in S /\ place[s[place[p]]] = place[p]
    BY <1>2, <1>3
  <2> QED
    BY <1>2, <2>1
<1> QED
  BY <1>5, <1>6, <1>7

\* The pages of a listing divide its positions: every position is on one of them.
LEMMA PagesDivide ==
    ASSUME NEW n \in Nat, NEW limit \in Nat \ {0}
    PROVE  LET last == largest(1, ceilDiv(n, limit)) IN
           /\ last \in Nat \ {0}
           /\ n = 0 => last = 1
           /\ \A i \in 1..n : \E k \in 1..last : (k - 1) * limit < i /\ i <= k * limit
           /\ \A k \in 1..last : (k - 1) * limit \in 0..n
<1> DEFINE page(i) == (i + limit - 1) \div limit
           last == largest(1, ceilDiv(n, limit))
<1>1. \A i \in Nat : /\ page(i) \in Nat
                     /\ limit * page(i) <= i + limit - 1
                     /\ i + limit - 1 < limit * page(i) + limit
  OBVIOUS
<1>2. \A i \in Nat : /\ (page(i) - 1) * limit = limit * page(i) - limit
                     /\ page(i) * limit = limit * page(i)
  BY <1>1
<1>3. \A i \in Nat : i <= page(i) * limit /\ (i = 0 \/ (page(i) - 1) * limit < i)
  BY <1>1, <1>2
<1>4. \A a, b \in Nat : a <= b => a * limit <= b * limit
  OBVIOUS
<1>5. \A i \in 1..n : page(i) <= page(n) /\ page(i) # 0
  <2> SUFFICES ASSUME NEW i \in 1..n PROVE page(i) <= page(n) /\ page(i) # 0
    OBVIOUS
  <2>1. page(i) \in Nat /\ page(n) \in Nat /\ i \in Nat /\ i <= n /\ i > 0
    BY <1>1
  <2>2. limit * page(i) < limit * page(n) + limit
    BY <1>1, <2>1
  <2>3. page(n) + 1 <= page(i) => (page(n) + 1) * limit <= page(i) * limit
    BY <1>4, <2>1
  <2>4. page(i) <= page(n)
    BY <2>1, <2>2, <2>3
  <2>5. page(i) # 0
    BY <1>3, <2>1
  <2> QED
    BY <2>4, <2>5
<1>6. page(n) \in Nat /\ (n = 0 => page(n) = 0)
  BY <1>1
<1> HIDE DEF page
<1>7. last = IF n = 0 THEN 1 ELSE page(n)
  <2>1. last = IF 1 >= page(n) THEN 1 ELSE page(n)
    BY DEF page, largest, ceilDiv
  <2>2. n # 0 => page(n) # 0
    BY <1>5
  <2> QED
    BY <1>6, <2>1, <2>2
<1> HIDE DEF last
<1>8. last \in Nat \ {0} /\ (n = 0 => last = 1)
  BY <1>5, <1>6, <1>7
<1>9. \A i \in 1..n : \E k \in 1..last : (k - 1) * limit < i /\ i <= k * limit
  <2> SUFFICES ASSUME NEW i \in 1..n
               PROVE  \E k \in 1..last : (k - 1) * limit < i /\ i <= k * limit
    OBVIOUS
  <2>1. page(i) \in 1..last /\ (page(i) - 1) * limit < i /\ i <= page(i) * limit
    BY <1>1, <1>3, <1>5, <1>6, <1>7
  <2> QED
    BY <2>1
<1>10. \A k \in 1..last : (k - 1) * limit \in 0..n
  <2> SUFFICES ASSUME NEW k \in 1..last PROVE (k - 1) * limit \in 0..n
    OBVIOUS
  <2>1. k - 1 \in Nat /\ last - 1 \in Nat /\ k - 1 <= last - 1
    BY <1>8
  <2>2. (k - 1) * limit \in Nat /\ (k - 1) * limit <= (last - 1) * limit
    BY <1>4, <2>1
  <2>3. (last - 1) * limit <= n
    <3>1. CASE n = 0
      BY <1>8, <3>1
    <3>2. CASE n # 0
      <4>1. (page(n) - 1) * limit < n /\ (page(n) - 1) * limit \in Int
        BY <1>3, <1>6, <3>2
      <4> QED
        BY <1>7, <3>2, <4>1
    <3> QED
      BY <3>1, <3>2
  <2>4. (last - 1) * limit \in Nat
    BY <2>1
  <2> QED
    BY <2>2, <2>3, <2>4
<1> QED
  BY <1>8, <1>9, <1>10 DEF last

\* What stands in a list, what stands at the positions J of a function on positions, and
\* the members of s after position a, up to e.
Members(t) == {t[i] : i \in DOMAIN t}
Standing(s, J) == {s[j] : j \in J}
Piece(s, a, e) == SubSeq(s, a + 1, e)

\* A piece of a list shows what stands at its positions.
LEMMA PieceShows ==
    ASSUME NEW n \in Nat, NEW s, NEW a \in Nat, NEW e \in Nat, e <= n
    PROVE  Members(Piece(s, a, e)) = Standing(s, {j \in 1..n : a < j /\ j <= e})
<1> DEFINE piece == Piece(s, a, e)
           J == {j \in 1..n : a < j /\ j <= e}
           S == {s[i] : i \in 1..n}
<1>1. \A i \in (a + 1)..e : s[i] \in S
  OBVIOUS
<1> HIDE DEF S
<1>2. /\ piece \in Seq(S)
      /\ Len(piece) = IF a + 1 <= e THEN e - a ELSE 0
      /\ \A i \in 1..(e - a) : piece[i] = s[a + i]
  <2>1. /\ piece \in Seq(S)
        /\ Len(piece) = IF a + 1 <= e THEN e - (a + 1) + 1 ELSE 0
        /\ \A i \in 1..(e - (a + 1) + 1) : piece[i] = s[a + 1 + i - 1]
    BY <1>1, SubSeqProperties DEF Piece
  <2>2. e - (a + 1) + 1 = e - a /\ \A i \in 1..(e - a) : a + 1 + i - 1 = a + i
    OBVIOUS
  <2> QED
    BY <2>1, <2>2
<1> HIDE DEF piece
<1>3. DOMAIN piece = 1..(e - a)
  BY <1>2
<1>4. ASSUME NEW i \in 1..(e - a) PROVE \E j \in J : s[j] = piece[i]
  BY <1>2
<1>5. ASSUME NEW j \in J PROVE \E i \in 1..(e - a) : piece[i] = s[j]
  <2>1. j - a \in 1..(e - a) /\ a + (j - a) = j
    OBVIOUS
  <2> QED
    BY <1>2, <2>1
<1> HIDE DEF J
<1>6. {piece[i] : i \in 1..(e - a)} = {s[j] : j \in J}
  BY <1>4, <1>5
<1> QED
  BY <1>3, <1>6 DEF piece, J, Members, Standing

\* The positions of a listing that are on its page k, and what that page shows.
Positions(k, limit, n) == {j \in 1..n : (k - 1) * limit < j /\ j <= k * limit}

LEMMA PageShows ==
    ASSUME NEW n \in Nat, NEW S, NEW s \in [1..n -> S],
           NEW k \in Nat \ {0}, NEW limit \in Nat \ {0}, (k - 1) * limit \in 0..n
    PROVE  Members(PageOf(s, k, limit)) = Standing(s, Positions(k, limit, n))
<1>1. \A x \in Int : smallest(x, n) <= n /\ (\A j \in 1..n : j <= smallest(x, n) <=> j <= x)
                     /\ (x \in Nat => smallest(x, n) \in Nat)
  BY DEF smallest
<1>2. k * limit \in Nat /\ k * limit \in Int
  OBVIOUS
<1>3. PICK a \in Nat : a = (k - 1) * limit
  OBVIOUS
<1>4. PICK e \in Nat : e = smallest(k * limit, n)
  BY <1>1, <1>2
<1>5. e <= n /\ \A j \in 1..n : j <= e <=> j <= k * limit
  BY <1>1, <1>2, <1>4
<1>6. Len(s) = n
  OBVIOUS
<1>7. PageOf(s, k, limit) = Piece(s, a, e)
  BY <1>3, <1>4, <1>6 DEF PageOf, Piece
<1>8. {j \in 1..n : a < j /\ j <= e} = Positions(k, limit, n)
  BY <1>3, <1>5 DEF Positions
<1>9. Members(Piece(s, a, e)) = Standing(s, {j \in 1..n : a < j /\ j <= e})
  BY <1>5, PieceShows
<1> QED
  BY <1>7, <1>8, <1>9

\* The order of a listing by price, when no two of its products cost the same.
LEMMA OneOrder ==
    ASSUME NEW S \in SUBSET DOMAIN products, IsFiniteSet(S),
           \A p \in S : products[p].price \in Int,
           \A p, q \in S : products[p].price = products[q].price => p = q,
           NEW sort \in {"priceAsc", "priceDesc"}
    PROVE  \E s \in [1..Cardinality(S) -> S] :
              /\ Orders(db, S, sort) = {s}
              /\ \A p \in S : \E i \in 1..Cardinality(S) : s[i] = p
              /\ \A i, j \in 1..Cardinality(S) : i # j => s[i] # s[j]
<1> DEFINE n == Cardinality(S)
           key == [p \in S |-> IF sort = "priceAsc" THEN products[p].price ELSE -products[p].price]
<1>1. n \in Nat
  BY FS_CardinalityType
<1>2. key \in [S -> Int] /\ \A p, q \in S : key[p] = key[q] => p = q
  OBVIOUS
<1>3. ASSUME NEW p \in S, NEW q \in S
      PROVE  key[p] <= key[q] <=> IF sort = "priceAsc" THEN products[p].price <= products[q].price
                                  ELSE products[p].price >= products[q].price
  OBVIOUS
<1>4. Orders(db, S, sort) = {s \in [1..n -> S] : Rising(s, S, key)}
  <2> SUFFICES ASSUME NEW s \in [1..n -> S]
               PROVE  (\A i, j \in 1..n : i < j =>
                          s[i] # s[j] /\ CASE sort = "priceAsc" -> products[s[i]].price <= products[s[j]].price
                                           [] sort = "priceDesc" -> products[s[i]].price >= products[s[j]].price
                                           [] OTHER -> TRUE)
                      <=> Rising(s, S, key)
    BY DEF Orders, db
  <2>1. \A i, j \in 1..n :
           key[s[i]] <= key[s[j]] <=>
              CASE sort = "priceAsc" -> products[s[i]].price <= products[s[j]].price
                [] sort = "priceDesc" -> products[s[i]].price >= products[s[j]].price
                [] OTHER -> TRUE
    BY <1>3
  <2> HIDE DEF key
  <2> QED
    BY <2>1 DEF Rising
<1> HIDE DEF key
<1>5. PICK s : /\ Rising(s, S, key)
               /\ \A p \in S : \E i \in 1..n : s[i] = p
               /\ \A t : Rising(t, S, key) => t = s
  BY <1>2, RisingList
<1>6. s \in [1..n -> S] /\ \A i, j \in 1..n : i < j => s[i] # s[j]
  BY <1>5 DEF Rising
<1>7. \A i, j \in 1..n : i # j => s[i] # s[j]
  <2> SUFFICES ASSUME NEW i \in 1..n, NEW j \in 1..n, i # j PROVE s[i] # s[j]
    OBVIOUS
  <2>1. i < j \/ j < i
    BY <1>1
  <2> QED
    BY <1>6, <2>1
<1>8. Orders(db, S, sort) = {s}
  BY <1>4, <1>5, <1>6
<1> QED
  BY <1>5, <1>6, <1>7, <1>8

\* The pages of a query's listing show each selected product once, and each but the last
\* names a next one.
PagesHold(query, limit) ==
    LET selected == Selected(db, query)
        pages == 1..largest(1, ceilDiv(Cardinality(selected), limit))
        answer(k) == CHOOSE a \in list(db, query, k, limit) : TRUE
        shown(k) == {answer(k).data[i] : i \in DOMAIN answer(k).data}
    IN  /\ UNION {shown(k) : k \in pages} = selected
        /\ \A j, k \in pages : j # k => shown(j) \cap shown(k) = {}
        /\ \A k \in pages : answer(k).meta.hasNextPage <=> k + 1 \in pages

\* So they do for every query sorted by price and every page length.
LEMMA PagesShowAll ==
    ASSUME IsFiniteSet(DOMAIN products), \A p \in DOMAIN products : products[p].price \in Int,
           NEW query, query.sort \in {"priceAsc", "priceDesc"}, NEW limit \in Nat \ {0},
           \A p, q \in Selected(db, query) : products[p].price = products[q].price => p = q
    PROVE  PagesHold(query, limit)
<1> DEFINE S == Selected(db, query)
           n == Cardinality(S)
           last == largest(1, ceilDiv(n, limit))
           answer(k) == CHOOSE a \in list(db, query, k, limit) : TRUE
           shown(k) == {answer(k).data[i] : i \in DOMAIN answer(k).data}
           On(k) == Positions(k, limit, n)
<1>1. S \in SUBSET DOMAIN products /\ IsFiniteSet(S) /\ n \in Nat
  <2>1. S \in SUBSET DOMAIN products
    BY DEF Selected, db
  <2> QED
    BY <2>1, FS_Subset, FS_CardinalityType
<1>2. PICK s \in [1..n -> S] :
         /\ Orders(db, S, query.sort) = {s}
         /\ \A p \in S : \E i \in 1..n : s[i] = p
         /\ \A i, j \in 1..n : i # j => s[i] # s[j]
  BY <1>1, OneOrder
<1>3. /\ last \in Nat \ {0} /\ (n = 0 => last = 1)
      /\ \A i \in 1..n : \E k \in 1..last : i \in On(k)
      /\ \A k \in 1..last : (k - 1) * limit \in 0..n
  BY <1>1, PagesDivide DEF Positions
<1>4. \A k : answer(k) = [data |-> PageOf(s, k, limit), meta |-> Meta(k, limit, n)]
  <2> SUFFICES ASSUME NEW k
               PROVE  answer(k) = [data |-> PageOf(s, k, limit), meta |-> Meta(k, limit, n)]
    OBVIOUS
  <2>1. list(db, query, k, limit) = {[data |-> PageOf(s, k, limit), meta |-> Meta(k, limit, n)]}
    BY <1>2 DEF list
  <2> QED
    BY <2>1
<1> HIDE DEF answer
<1>5. \A k \in 1..last : shown(k) = {s[j] : j \in On(k)}
  <2> SUFFICES ASSUME NEW k \in 1..last PROVE shown(k) = {s[j] : j \in On(k)}
    OBVIOUS
  <2>1. answer(k).data = PageOf(s, k, limit)
    BY <1>4
  <2>2. k \in Nat \ {0} /\ (k - 1) * limit \in 0..n
    BY <1>3
  <2>3. shown(k) = {PageOf(s, k, limit)[i] : i \in DOMAIN PageOf(s, k, limit)}
    BY <2>1
  <2>4. shown(k) = Members(PageOf(s, k, limit))
    BY <2>3 DEF Members
  <2>5. k \in Nat \ {0} /\ (k - 1) * limit \in 0..n /\ n \in Nat
    BY <1>1, <2>2
  <2> HIDE DEF shown, n, S
  <2>6. Members(PageOf(s, k, limit)) = Standing(s, Positions(k, limit, n))
    BY <2>5, PageShows
  <2> QED
    BY <2>4, <2>6 DEF Standing
<1>6. UNION {shown(k) : k \in 1..last} = S
  <2>1. ASSUME NEW p \in S PROVE \E k \in 1..last : p \in shown(k)
    <3>1. PICK i \in 1..n : s[i] = p
      BY <1>2
    <3>2. PICK k \in 1..last : i \in On(k)
      BY <1>3
    <3>3. shown(k) = {s[j] : j \in On(k)}
      BY <1>5
    <3> QED
      BY <3>1, <3>2, <3>3
  <2>2. ASSUME NEW k \in 1..last PROVE shown(k) \subseteq S
    <3>1. shown(k) = {s[j] : j \in On(k)}
      BY <1>5
    <3> HIDE DEF shown
    <3> QED
      BY <3>1 DEF Positions
  <2> HIDE DEF shown
  <2> QED
    BY <2>1, <2>2
<1>7. \A j, k \in 1..last : j # k => shown(j) \cap shown(k) = {}
  <2> HIDE DEF shown
  <2> SUFFICES ASSUME NEW j \in 1..last, NEW k \in 1..last, j < k
               PROVE  shown(j) \cap shown(k) = {}
    <3>1. \A j, k \in 1..last : j # k => j < k \/ k < j
      BY <1>3
    <3> HIDE DEF last
    <3> QED
      BY <3>1
  <2>1. j * limit <= (k - 1) * limit
    <3>1. j \in Nat /\ k - 1 \in Nat /\ j <= k - 1
      BY <1>3
    <3> HIDE DEF last
    <3>2. \A x, y \in Nat : x <= y => x * limit <= y * limit
      OBVIOUS
    <3> QED
      BY <3>1, <3>2
  <2>2. j * limit \in Int /\ (k - 1) * limit \in Int
    BY <1>3
  <2>3. On(j) \cap On(k) = {}
    <3>1. \A x \in 1..n : ~(x <= j * limit /\ (k - 1) * limit < x)
      BY <1>1, <2>1, <2>2
    <3> QED
      BY <3>1 DEF Positions
  <2>4. \A x \in On(j), y \in On(k) : s[x] # s[y]
    BY <1>2, <2>3 DEF Positions
  <2>5. shown(j) = {s[x] : x \in On(j)} /\ shown(k) = {s[y] : y \in On(k)}
    BY <1>5
  <2> HIDE DEF On
  <2> QED
    BY <2>4, <2>5
<1>8. \A k \in 1..last : answer(k).meta.hasNextPage <=> k + 1 \in 1..last
  <2> SUFFICES ASSUME NEW k \in 1..last PROVE answer(k).meta.hasNextPage <=> k + 1 \in 1..last
    OBVIOUS
  <2>1. answer(k).meta.hasNextPage <=> k < last /\ n > 0
    BY <1>4 DEF Meta
  <2> HIDE DEF last
  <2>2. k + 1 \in 1..last <=> k < last
    BY <1>3
  <2>3. k < last => n > 0
    BY <1>1, <1>3
  <2> QED
    BY <2>1, <2>2, <2>3
<1> QED
  BY <1>6, <1>7, <1>8 DEF answer, shown, PagesHold

\* A step adds at most a brand and a product.
LEMMA CollectionsGrow ==
    ASSUME TypeInv, StorefrontNext
    PROVE  \E b, p : /\ DOMAIN brands' \subseteq DOMAIN brands \cup {b}
                     /\ DOMAIN products' \subseteq DOMAIN products \cup {p}
<1> DEFINE Grow(b, p) == /\ DOMAIN brands' \subseteq DOMAIN brands \cup {b}
                         /\ DOMAIN products' \subseteq DOMAIN products \cup {p}
<1> SUFFICES \E b, p : Grow(b, p)
  OBVIOUS
<1>0. Requests /\ Documents /\ Belongings
  BY DEF TypeInv
<1>1. CASE UNCHANGED <<brands, products>>
  BY <1>1
<1>2. ASSUME NEW h \in Handler, AdminStep(h) PROVE \E b, p : Grow(b, p)
  <2> DEFINE r == req[h]
  <2>0. CatalogueStep(h)
    BY <1>2 DEF AdminStep
  <2>1. CASE CategoryStep(h)
    <3>1. UNCHANGED <<brands, products>>
      BY <2>1 DEF CategoryStep, CreateCategory, InsertCategory, UpdateCategory,
                  UpdateCategoryExists, SaveCategory, RemoveCategory, CountInCategory,
                  DeleteCategory, Reading, collections
    <3> QED
      BY <1>1, <3>1
  <2>2. ASSUME NEW b \in Brand, InsertBrand(h, b) PROVE Grow(b, b)
    <3>1. UNCHANGED products /\ brands' = with(brands, b, r.form.category)
      BY <2>2 DEF InsertBrand
    <3> HIDE DEF r
    <3>2. DOMAIN with(brands, b, r.form.category) = DOMAIN brands \cup {b}
      BY WithAndWithout
    <3> QED
      BY <3>1, <3>2
  <2>3. CASE SaveBrand(h) \/ DeleteBrand(h)
    <3>1. /\ UNCHANGED products
          /\ \/ brands' = brands \/ brands' = [brands EXCEPT ![r.id] = r.form.category]
             \/ brands' = without(brands, r.id)
      BY <2>3 DEF SaveBrand, DeleteBrand
    <3> HIDE DEF r
    <3>2. DOMAIN without(brands, r.id) = DOMAIN brands \ {r.id}
      BY WithAndWithout
    <3>3. DOMAIN brands' \subseteq DOMAIN brands
      BY <3>1, <3>2
    <3> QED
      BY <3>1, <3>3
  <2>4. ASSUME NEW p \in Product, InsertProduct(h, p) PROVE Grow(p, p)
    <3>1. UNCHANGED brands /\ (products' = products \/ products' = with(products, p, Filled(r)))
      BY <2>4 DEF InsertProduct
    <3> HIDE DEF r
    <3>2. DOMAIN with(products, p, Filled(r)) = DOMAIN products \cup {p}
      BY WithAndWithout
    <3> QED
      BY <3>1, <3>2
  <2>5. CASE SaveProduct(h) \/ DeleteProduct(h)
    <3> DEFINE doc == SavedPaths(products[r.id], r.base, Filled(r))
    <3>1. /\ UNCHANGED brands
          /\ \/ products' = products \/ products' = [products EXCEPT ![r.id] = doc]
             \/ products' = without(products, r.id)
      BY <2>5 DEF SaveProduct, DeleteProduct
    <3> HIDE DEF doc, r
    <3>2. DOMAIN without(products, r.id) = DOMAIN products \ {r.id}
      BY WithAndWithout
    <3>3. DOMAIN products' \subseteq DOMAIN products
      BY <3>1, <3>2
    <3> QED
      BY <3>1, <3>3
  <2>6. CASE \/ \E c \in Category : CreateBrand(h, c)
             \/ \E b \in Brand, c \in Category : UpdateBrand(h, b, c)
             \/ UpdateBrandCategory(h)
             \/ \E b \in Brand : DeleteBrandLoad(h, b)
             \/ CountOfBrand(h)
    BY <1>1, <2>6 DEF CreateBrand, UpdateBrand, UpdateBrandCategory, DeleteBrandLoad,
                      CountOfBrand, Reading, collections
  <2>7. CASE \/ \E form \in Form : CreateProduct(h, form)
             \/ \E p \in Product, form \in Form : UpdateProduct(h, p, form)
             \/ UpdateProductCategory(h) \/ CheckBrand(h) \/ CheckSku(h) \/ FindSlug(h)
             \/ \E p \in Product : DeleteProductLoad(h, p)
    BY <1>1, <2>7 DEF CreateProduct, UpdateProduct, UpdateProductCategory, CheckBrand, CheckSku,
                      FindSlug, DeleteProductLoad, Reading, collections
  <2> HIDE DEF Grow
  <2> QED
    BY <2>0, <2>1, <2>2, <2>3, <2>4, <2>5, <2>6, <2>7, CatalogueSteps DEF BrandStep, EditStep
<1>3. ASSUME NEW line \in unsold, SellLine(line[1], line[2]) PROVE \E b, p : Grow(b, p)
  <2>1. UNCHANGED brands /\ DOMAIN products' = DOMAIN products
    BY <1>0, <1>3, SellLineDocuments DEF SellLine
  <2> QED
    BY <2>1
<1>4. CASE UNCHANGED collections
  BY <1>1, <1>4 DEF collections
<1> HIDE DEF Grow
<1> QED
  BY <1>2, <1>3, <1>4, SomeStep, ShopDocuments

\* The collections a listing counts are finite.
FiniteInv == IsFiniteSet(DOMAIN brands) /\ IsFiniteSet(DOMAIN products)

LEMMA FiniteAlways == Spec => []FiniteInv
<1>1. StorefrontInit => FiniteInv
  BY CatalogueAssumption DEF StorefrontInit, CatalogueInit, FiniteInv
<1>2. ASSUME TypeInv, FiniteInv, [StorefrontNext]_vars PROVE FiniteInv'
  <2>1. CASE UNCHANGED vars
    BY <1>2, <2>1 DEF FiniteInv, vars, catalogueVars, collections
  <2>2. CASE StorefrontNext
    <3>1. PICK b, p : /\ DOMAIN brands' \subseteq DOMAIN brands \cup {b}
                      /\ DOMAIN products' \subseteq DOMAIN products \cup {p}
      BY <1>2, <2>2, CollectionsGrow
    <3>2. IsFiniteSet(DOMAIN brands \cup {b}) /\ IsFiniteSet(DOMAIN products \cup {p})
      BY <1>2, FS_AddElement DEF FiniteInv
    <3> QED
      BY <3>1, <3>2, FS_Subset DEF FiniteInv
  <2> QED
    BY <1>2, <2>1, <2>2
<1> QED
  BY <1>1, <1>2, TypeAlways, PTL DEF Spec

\* The pages of a listing (model of ProductService.list): for every stored collection of
\* products, turning the pages of a listing by price shows each selected product once, and
\* every page but the last names a next one, when no two of them cost the same.
THEOREM PagesAlwaysPartition == Spec => []PagesPartition
<1>1. ASSUME TypeInv, FiniteInv PROVE PagesPartition
  <2>1. \A p \in DOMAIN products : products[p].price \in Int
    BY <1>1, CatalogueAssumption DEF TypeInv, Documents, Keeps, ProductDoc
  <2>2. IsFiniteSet(DOMAIN products)
    BY <1>1 DEF FiniteInv
  <2>3. ASSUME NEW limit \in 1..2, NEW query, query.sort \in {"priceAsc", "priceDesc"}
        PROVE  (\A p, q \in Selected(db, query) :
                   products[p].price = products[q].price => p = q) => PagesHold(query, limit)
    <3>1. limit \in Nat \ {0}
      OBVIOUS
    <3> QED
      BY <2>1, <2>2, <2>3, <3>1, PagesShowAll
  <2>4. \A limit \in 1..2, sort \in {"priceAsc", "priceDesc"} :
           LET query == [category |-> "", brand |-> {}, attributes |-> NoAttributes,
                         minPrice |-> 0, maxPrice |-> 100, activeOnly |-> TRUE, sort |-> sort]
           IN (\A p, q \in Selected(db, query) :
                  products[p].price = products[q].price => p = q) => PagesHold(query, limit)
    <3> SUFFICES ASSUME NEW limit \in 1..2, NEW sort \in {"priceAsc", "priceDesc"}
                 PROVE  LET query == [category |-> "", brand |-> {}, attributes |-> NoAttributes,
                                      minPrice |-> 0, maxPrice |-> 100, activeOnly |-> TRUE,
                                      sort |-> sort]
                        IN (\A p, q \in Selected(db, query) :
                               products[p].price = products[q].price => p = q)
                           => PagesHold(query, limit)
      OBVIOUS
    <3> DEFINE query == [category |-> "", brand |-> {}, attributes |-> NoAttributes,
                         minPrice |-> 0, maxPrice |-> 100, activeOnly |-> TRUE, sort |-> sort]
    <3>1. query.sort \in {"priceAsc", "priceDesc"}
      OBVIOUS
    <3> HIDE DEF query
    <3>2. (\A p, q \in Selected(db, query) : products[p].price = products[q].price => p = q)
          => PagesHold(query, limit)
      BY <2>3, <3>1
    <3> QED
      BY <3>2 DEF query
  <2> QED
    BY <2>4 DEF PagesPartition, PagesHold
<1> QED
  BY <1>1, TypeAlways, FiniteAlways, PTL

-------------------------------------------------------------------------------
(* Sums *)

\* A set of naturals that is not empty has a least member.
LEMMA LeastIs ==
    ASSUME NEW S \in SUBSET Nat, S # {}
    PROVE  \E x \in S : \A y \in S : x <= y
<1> DEFINE Lower == {p \in Nat \X Nat : p[1] < p[2]}
<1>1. IsWellFoundedOn(Lower, Nat)
  BY NatLessThanWellFounded DEF OpToRel
<1> HIDE DEF Lower
<1>2. PICK x \in S : \A y \in S : ~(<<y, x>> \in Lower)
  BY <1>1, WFMin
<1>3. ASSUME NEW y \in S PROVE x <= y
  <2>1. <<y, x>> \in Nat \X Nat /\ <<y, x>>[1] = y /\ <<y, x>>[2] = x
    OBVIOUS
  <2>2. ~(y < x)
    BY <1>2, <2>1 DEF Lower
  <2> QED
    BY <2>2
<1> QED
  BY <1>3

\* The sum of the counts beside the members of a set, which TLA+ takes one at a time.
SumOf(counts) == MapThenSumSet(LAMBDA x : counts[x], DOMAIN counts)
OneOf(s) == CHOOSE x \in s : TRUE
Folding(iter, counts, S) ==
    iter = [s \in SUBSET S |-> IF s = {} THEN 0 ELSE counts[OneOf(s)] + iter[s \ {OneOf(s)}]]

LEMMA SumIs ==
    ASSUME NEW counts, NEW g, Folding(g, counts, DOMAIN counts)
    PROVE  \E iter : Folding(iter, counts, DOMAIN counts) /\ SumOf(counts) = iter[DOMAIN counts]
<1> DEFINE it == CHOOSE iter : Folding(iter, counts, DOMAIN counts)
<1>1. Folding(it, counts, DOMAIN counts)
  OBVIOUS
<1>2. SumOf(counts) = it[DOMAIN counts]
  BY Zenon DEF SumOf, MapThenSumSet, MapThenFoldSet, Folding, OneOf
<1> HIDE DEF it
<1> QED
  BY <1>1, <1>2

\* What folds the counts of a finite set is determined.
LEMMA OneFolding ==
    ASSUME NEW S, IsFiniteSet(S), NEW counts, NEW f, NEW g,
           Folding(f, counts, S), Folding(g, counts, S)
    PROVE  f[S] = g[S]
<1> DEFINE Bad == {s \in SUBSET S : f[s] # g[s]}
           Sizes == {Cardinality(s) : s \in Bad}
<1>1. \A s \in SUBSET S : IsFiniteSet(s) /\ Cardinality(s) \in Nat
  BY FS_Subset, FS_CardinalityType
<1>2. \A s \in SUBSET S :
         /\ f[s] = IF s = {} THEN 0 ELSE counts[OneOf(s)] + f[s \ {OneOf(s)}]
         /\ g[s] = IF s = {} THEN 0 ELSE counts[OneOf(s)] + g[s \ {OneOf(s)}]
  BY DEF Folding
<1> SUFFICES ASSUME Bad # {} PROVE FALSE
  OBVIOUS
<1>3. Sizes \in SUBSET Nat /\ Sizes # {}
  BY <1>1
<1>4. PICK n \in Sizes : \A m \in Sizes : n <= m
  BY <1>3, LeastIs
<1>5. PICK s \in Bad : Cardinality(s) = n
  BY <1>4
<1>6. s \in SUBSET S /\ s # {} /\ f[s] # g[s]
  BY <1>2, <1>5
<1>7. OneOf(s) \in s /\ s \ {OneOf(s)} \in SUBSET S
  BY <1>6 DEF OneOf
<1>8. Cardinality(s \ {OneOf(s)}) = n - 1 /\ n \in Nat
  BY <1>1, <1>5, <1>6, <1>7, FS_RemoveElement
<1>9. Cardinality(s \ {OneOf(s)}) \notin Sizes
  BY <1>4, <1>8, <1>3
<1>10. f[s \ {OneOf(s)}] = g[s \ {OneOf(s)}]
  BY <1>7, <1>9
<1> QED
  BY <1>2, <1>6, <1>10

\* The counts of the parts of a finite set add up to its size.
LEMMA SumOfParts ==
    ASSUME NEW S, IsFiniteSet(S), NEW T, IsFiniteSet(T), NEW part, \A t \in T : part[t] \in S,
           NEW counts, DOMAIN counts = S,
           \A x \in S : counts[x] = Cardinality({t \in T : part[t] = x})
    PROVE  SumOf(counts) = Cardinality(T)
<1> DEFINE In(s) == {t \in T : part[t] \in s}
           g == [s \in SUBSET S |-> Cardinality(In(s))]
<1>1. \A s : IsFiniteSet(In(s)) /\ Cardinality(In(s)) \in Nat
  BY FS_Subset, FS_CardinalityType
<1>2. Cardinality(In({})) = 0
  <2>1. In({}) = {}
    OBVIOUS
  <2> QED
    BY <2>1, FS_EmptySet
<1>3. ASSUME NEW s \in SUBSET S, NEW x \in s
      PROVE  Cardinality(In(s)) = counts[x] + Cardinality(In(s \ {x}))
  <2> DEFINE here == {t \in T : part[t] = x}
  <2>1. In(s) = here \cup In(s \ {x}) /\ here \cap In(s \ {x}) = {}
    OBVIOUS
  <2>2. IsFiniteSet(here) /\ counts[x] = Cardinality(here) /\ Cardinality(here) \in Nat
    BY FS_Subset, FS_CardinalityType
  <2> HIDE DEF In, here
  <2>3. Cardinality(here \cup In(s \ {x})) =
           Cardinality(here) + Cardinality(In(s \ {x})) - Cardinality(here \cap In(s \ {x}))
    BY <1>1, <2>2, FS_Union
  <2>4. Cardinality(here \cap In(s \ {x})) = 0
    BY <2>1, FS_EmptySet
  <2> QED
    BY <1>1, <2>1, <2>2, <2>3, <2>4
<1>4. Folding(g, counts, S)
  <2>1. ASSUME NEW s \in SUBSET S
        PROVE  g[s] = IF s = {} THEN 0 ELSE counts[OneOf(s)] + g[s \ {OneOf(s)}]
    <3>1. g[s] = Cardinality(In(s)) /\ g[s \ {OneOf(s)}] = Cardinality(In(s \ {OneOf(s)}))
      OBVIOUS
    <3>2. s # {} => OneOf(s) \in s
      BY DEF OneOf
    <3> HIDE DEF g, In
    <3> QED
      BY <1>2, <1>3, <3>1, <3>2
  <2>2. g = [s \in SUBSET S |-> g[s]]
    OBVIOUS
  <2> HIDE DEF g
  <2> QED
    BY <2>1, <2>2 DEF Folding
<1>5. PICK iter : Folding(iter, counts, S) /\ SumOf(counts) = iter[S]
  BY <1>4, SumIs
<1>6. iter[S] = g[S]
  BY <1>4, <1>5, OneFolding
<1>7. In(S) = T
  OBVIOUS
<1> QED
  BY <1>5, <1>6, <1>7

-------------------------------------------------------------------------------
(* The categories and the products that fit them *)

\* Names of categories that give their products the same attributes.
SameFields(x, y) == getAttributeFields(x) = getAttributeFields(y)

\* The calls of a renaming, and of a product whose category's name has been read.
Renaming == {"category.exists", "category.save"}
Checked == ProductStep \ {"product.category"}

\* A renaming is of a category without attributes, to another such name; a product is
\* checked against the attributes its category still has.
NameOK(step, r) ==
    /\ step \in Renaming =>
          /\ r.id \in drawn /\ ~isLockedCategoryName(r.form.name)
          /\ r.id \in DOMAIN categories => ~isLockedCategoryName(categories[r.id])
    /\ step \in Checked =>
          /\ r.form.category \in drawn
          /\ r.form.category \in DOMAIN categories => SameFields(categories[r.form.category], r.name)

NamesInv == \A h \in Handler : NameOK(at[h], req[h])

LEMMA UnlockedSame ==
    ASSUME NEW x, NEW y, ~isLockedCategoryName(x), ~isLockedCategoryName(y)
    PROVE  SameFields(x, y)
BY DEF SameFields, isLockedCategoryName, LOCKED_CATEGORY_NAMES, getAttributeFields,
       PRODUCT_ATTRIBUTE_SCHEMA

\* No id is given twice, and a category keeps the attributes of its products.
Settled ==
    /\ drawn \subseteq drawn'
    /\ \A c \in drawn \cap DOMAIN categories' :
          /\ c \in DOMAIN categories
          /\ SameFields(categories'[c], categories[c])
          /\ ~isLockedCategoryName(categories[c]) => ~isLockedCategoryName(categories'[c])

LEMMA UnchangedSettled ==
    ASSUME UNCHANGED categories, drawn \subseteq drawn'
    PROVE  Settled
BY DEF Settled, SameFields

LEMMA CategoriesSettle ==
    ASSUME TypeInv, NamesInv, StorefrontNext
    PROVE  Settled
<1>0. Requests /\ Documents
  BY DEF TypeInv
<1>1. CASE UNCHANGED <<categories, drawn>>
  BY <1>1, UnchangedSettled
<1>2. ASSUME NEW h \in Handler, AdminStep(h) PROVE Settled
  <2> DEFINE r == req[h]
  <2>0. CatalogueStep(h)
    BY <1>2 DEF AdminStep
  <2>1. ASSUME NEW c \in Category, InsertCategory(h, c) PROVE Settled
    <3>1. /\ c \notin drawn
          /\ \/ UNCHANGED <<categories, drawn>>
             \/ categories' = with(categories, c, r.form.name) /\ drawn' = drawn \cup {c}
      BY <2>1 DEF InsertCategory, fresh
    <3> HIDE DEF r
    <3>2. /\ DOMAIN with(categories, c, r.form.name) = DOMAIN categories \cup {c}
          /\ \A x \in DOMAIN categories \ {c} : with(categories, c, r.form.name)[x] = categories[x]
      BY DEF with
    <3>3. CASE categories' = with(categories, c, r.form.name) /\ drawn' = drawn \cup {c}
      <4>1. \A x \in drawn \cap DOMAIN categories' : x \in DOMAIN categories
                                                    /\ categories'[x] = categories[x]
        BY <3>1, <3>2, <3>3
      <4> QED
        BY <3>3, <4>1 DEF Settled, SameFields
    <3> QED
      BY <1>1, <3>1, <3>3
  <2>2. CASE SaveCategory(h)
    <3>1. /\ at[h] = "category.save" /\ UNCHANGED drawn
          /\ \/ UNCHANGED categories
             \/ r.id \in DOMAIN categories /\ categories' = [categories EXCEPT ![r.id] = r.form.name]
      BY <2>2 DEF SaveCategory
    <3>2. /\ ~isLockedCategoryName(r.form.name)
          /\ r.id \in DOMAIN categories => ~isLockedCategoryName(categories[r.id])
      BY <3>1 DEF NamesInv, NameOK, Renaming
    <3> HIDE DEF r
    <3>3. CASE r.id \in DOMAIN categories /\ categories' = [categories EXCEPT ![r.id] = r.form.name]
      <4>1. SameFields(r.form.name, categories[r.id])
        BY <3>2, <3>3, UnlockedSame
      <4>2. DOMAIN categories' = DOMAIN categories /\ categories'[r.id] = r.form.name
            /\ \A x \in DOMAIN categories \ {r.id} : categories'[x] = categories[x]
        BY <3>3
      <4> QED
        BY <3>1, <3>2, <4>1, <4>2 DEF Settled, SameFields
    <3> QED
      BY <1>1, <3>1, <3>3
  <2>3. CASE DeleteCategory(h)
    <3>1. categories' = without(categories, r.id) /\ UNCHANGED drawn
      BY <2>3 DEF DeleteCategory
    <3> HIDE DEF r
    <3>2. /\ DOMAIN without(categories, r.id) = DOMAIN categories \ {r.id}
          /\ \A x \in DOMAIN categories \ {r.id} : without(categories, r.id)[x] = categories[x]
      BY WithAndWithout
    <3> QED
      BY <3>1, <3>2 DEF Settled, SameFields
  <2>4. CASE \/ \E name \in Name : CreateCategory(h, name)
             \/ \E c \in Category, name \in Name : UpdateCategory(h, c, name)
             \/ UpdateCategoryExists(h)
             \/ \E c \in Category : RemoveCategory(h, c)
             \/ \E what \in {"products", "brands"} : CountInCategory(h, what)
    BY <1>1, <2>4 DEF CreateCategory, UpdateCategory, UpdateCategoryExists, RemoveCategory,
                      CountInCategory, Reading, collections
  <2>5. CASE BrandStep(h)
    <3>1. UNCHANGED categories /\ drawn \subseteq drawn'
      BY <2>5 DEF BrandStep, CreateBrand, InsertBrand, UpdateBrand, UpdateBrandCategory, SaveBrand,
                  DeleteBrandLoad, CountOfBrand, DeleteBrand, Reading, collections
    <3> QED
      BY <3>1, UnchangedSettled
  <2>6. CASE EditStep(h)
    <3>1. UNCHANGED categories /\ drawn \subseteq drawn'
      BY <2>6 DEF EditStep, CreateProduct, UpdateProduct, UpdateProductCategory, CheckBrand,
                  CheckSku, FindSlug, InsertProduct, SaveProduct, DeleteProductLoad, DeleteProduct,
                  Reading, collections
    <3> QED
      BY <3>1, UnchangedSettled
  <2> QED
    BY <2>0, <2>1, <2>2, <2>3, <2>4, <2>5, <2>6, CatalogueSteps DEF CategoryStep
<1>3. ASSUME NEW line \in unsold, SellLine(line[1], line[2]) PROVE Settled
  BY <1>1, <1>3 DEF SellLine
<1>4. CASE UNCHANGED <<collections, drawn>>
  BY <1>1, <1>4 DEF collections
<1> QED
  BY <1>2, <1>3, <1>4, SomeStep, ShopDocuments

\* What a request knows of the names stays true.
LEMMA NamesStay ==
    ASSUME Settled
    PROVE  \A step, r : NameOK(step, r) => NameOK(step, r)'
BY DEF Settled, NameOK, SameFields

\* What an administrator's request knows when it goes on.
LEMMA NamesRead ==
    ASSUME Requests, Documents, NamesInv, NEW h \in Handler, CatalogueStep(h)
    PROVE  NameOK(at'[h], req'[h])
<1> DEFINE r == req[h]
<1> USE DEF Renaming, Checked, ProductStep
<1>0. RequestOK(at[h], r) /\ NameOK(at[h], r) /\ DOMAIN req = Handler /\ DOMAIN at = Handler
  BY DEF Requests, NamesInv
<1>1. ASSUME at'[h] \notin Renaming \cup Checked PROVE NameOK(at'[h], req'[h])
  BY <1>1 DEF NameOK
<1>2. CASE Answer(h)
  BY <1>0, <1>1, <1>2 DEF Answer
<1>3. ASSUME NEW passes, NEW step, Continue(h, passes, step), NameOK(step, r)
      PROVE  NameOK(at'[h], req'[h])
  BY <1>0, <1>2, <1>3 DEF Continue, GoTo
<1>4. ASSUME NEW step, NEW request, Accept(h, step, request), NameOK(step, request)
      PROVE  NameOK(at'[h], req'[h])
  BY <1>0, <1>4 DEF Accept
<1>5. \A step, request : step \notin Renaming \cup Checked => NameOK(step, request)
  BY DEF NameOK
<1> HIDE DEF r
<1>6. ASSUME NEW c \in Category, NEW name \in Name, UpdateCategory(h, c, name)
      PROVE  NameOK(at'[h], req'[h])
  <2> DEFINE request == [IdleRequest EXCEPT !.id = c, !.form = [name |-> name],
                                            !.base = [name |-> categories[c]]]
  <2>1. /\ Accept(h, "category.exists", request) /\ c \in DOMAIN categories
        /\ ~isLockedCategoryName(categories[c]) /\ ~isLockedCategoryName(name)
    BY <1>6 DEF UpdateCategory
  <2>2. request.id = c /\ request.form.name = name
    BY DEF IdleRequest
  <2>3. c \in drawn
    BY <2>1 DEF Documents, Keeps
  <2> HIDE DEF request
  <2>4. NameOK("category.exists", request)
    BY <2>1, <2>2, <2>3 DEF NameOK
  <2> QED
    BY <1>4, <2>1, <2>4
<1>7. CASE UpdateCategoryExists(h)
  <2>1. at[h] = "category.exists" /\ \E passes : Continue(h, passes, "category.save")
    BY <1>7 DEF UpdateCategoryExists
  <2>2. NameOK("category.save", r)
    BY <1>0, <2>1 DEF NameOK
  <2> QED
    BY <1>3, <2>1, <2>2
<1>8. ASSUME NEW form, NEW base, NEW id, form.category \in DOMAIN categories
      PROVE  NameOK("product.brand", ReadCategory(form, base, id))
  <2> DEFINE request == ReadCategory(form, base, id)
  <2>1. request.form = form /\ request.name = categories[form.category]
    BY DEF ReadCategory, IdleRequest
  <2>2. form.category \in drawn
    BY <1>8 DEF Documents, Keeps
  <2> HIDE DEF request
  <2>3. NameOK("product.brand", request)
    BY <2>1, <2>2 DEF NameOK, SameFields
  <2> QED
    BY <2>3 DEF request
<1>9. ASSUME NEW form \in Form, CreateProduct(h, form) PROVE NameOK(at'[h], req'[h])
  <2>1. Accept(h, "product.brand", ReadCategory(form, NoId, NoId)) /\ form.category \in DOMAIN categories
    BY <1>9 DEF CreateProduct, CategoryTakes
  <2> QED
    BY <1>4, <1>8, <2>1
<1>10. CASE UpdateProductCategory(h)
  <2>1. CASE ~CategoryTakes(r.form.category)
    BY <1>2, <1>10, <2>1 DEF UpdateProductCategory, r
  <2>2. CASE CategoryTakes(r.form.category)
    <3> DEFINE request == ReadCategory(r.form, r.base, r.id)
    <3>1. at' = [at EXCEPT ![h] = "product.brand"] /\ req' = [req EXCEPT ![h] = request]
      BY <1>10, <2>2 DEF UpdateProductCategory, r
    <3>2. NameOK("product.brand", request)
      BY <1>8, <2>2 DEF CategoryTakes
    <3> HIDE DEF request
    <3>3. at'[h] = "product.brand" /\ req'[h] = request
      BY <1>0, <3>1
    <3> QED
      BY <3>2, <3>3
  <2> QED
    BY <2>1, <2>2
<1>11. CASE CheckBrand(h) \/ CheckSku(h)
  <2>1. \/ at[h] = "product.brand" /\ \E passes : Continue(h, passes, "product.sku")
        \/ at[h] = "product.sku" /\ \E passes : Continue(h, passes, "product.slug")
    BY <1>11 DEF CheckBrand, CheckSku
  <2>2. at[h] = "product.brand" => NameOK("product.sku", r)
    BY <1>0 DEF NameOK
  <2>3. at[h] = "product.sku" => NameOK("product.slug", r)
    BY <1>0 DEF NameOK
  <2> QED
    BY <1>3, <2>1, <2>2, <2>3
<1>12. CASE FindSlug(h)
  <2>1. /\ at[h] = "product.slug"
        /\ \/ req' = [req EXCEPT ![h].slug = @ + 1] /\ UNCHANGED at
           \/ \E passes : \/ Continue(h, passes, "product.insert")
                          \/ Continue(h, passes, "product.save")
    BY <1>12 DEF FindSlug
  <2>2. NameOK("product.insert", r) /\ NameOK("product.save", r)
    BY <1>0, <2>1 DEF NameOK
  <2>3. CASE req' = [req EXCEPT ![h].slug = @ + 1] /\ UNCHANGED at
    <3>1. at'[h] = "product.slug" /\ req'[h] = [r EXCEPT !.slug = @ + 1]
      BY <1>0, <2>1, <2>3 DEF r
    <3>2. req'[h].form = r.form /\ req'[h].name = r.name
      BY <1>0, <3>1 DEF RequestOK, Fields
    <3> QED
      BY <1>0, <2>1, <3>1, <3>2 DEF NameOK
  <2> QED
    BY <1>3, <2>1, <2>2, <2>3
<1>13. CASE \/ \E name \in Name : CreateCategory(h, name)
            \/ \E c \in Category : RemoveCategory(h, c)
            \/ \E c \in Category : CreateBrand(h, c)
            \/ \E b \in Brand, c \in Category : UpdateBrand(h, b, c)
            \/ \E b \in Brand : DeleteBrandLoad(h, b)
            \/ \E p \in Product, form \in Form : UpdateProduct(h, p, form)
            \/ \E p \in Product : DeleteProductLoad(h, p)
  <2>1. \E step \in {"category.insert", "category.count", "brand.insert", "brand.category",
                     "brand.count", "product.category", "product.delete"} :
           \E request : Accept(h, step, request)
    BY <1>13 DEF CreateCategory, RemoveCategory, CreateBrand, UpdateBrand, DeleteBrandLoad,
                 UpdateProduct, DeleteProductLoad
  <2> QED
    BY <1>4, <1>5, <2>1
<1>14. ASSUME NEW what \in {"products", "brands"}, CountInCategory(h, what)
       PROVE  NameOK(at'[h], req'[h])
  <2>1. Answer(h) \/ \E step \in {"category.count", "category.delete"} :
                        at' = [at EXCEPT ![h] = step]
    BY <1>0, <1>14 DEF CountInCategory
  <2> QED
    BY <1>0, <1>1, <1>2, <2>1
<1>15. CASE UpdateBrandCategory(h) \/ CountOfBrand(h)
  <2>1. UpdateBrandCategory(h) => \E passes : Continue(h, passes, "brand.save")
    BY DEF UpdateBrandCategory
  <2>2. CountOfBrand(h) => \E passes : Continue(h, passes, "brand.delete")
    BY DEF CountOfBrand
  <2> QED
    BY <1>3, <1>5, <1>15, <2>1, <2>2
<1>16. CASE \/ \E c \in Category : InsertCategory(h, c)
            \/ SaveCategory(h) \/ DeleteCategory(h)
            \/ \E b \in Brand : InsertBrand(h, b)
            \/ SaveBrand(h) \/ DeleteBrand(h)
            \/ \E p \in Product : InsertProduct(h, p)
            \/ SaveProduct(h) \/ DeleteProduct(h)
  BY <1>2, <1>16 DEF InsertCategory, SaveCategory, DeleteCategory, InsertBrand, SaveBrand,
                     DeleteBrand, InsertProduct, SaveProduct, DeleteProduct
<1> HIDE DEF Renaming, Checked, ProductStep
<1> QED
  BY <1>6, <1>7, <1>9, <1>10, <1>11, <1>12, <1>13, <1>14, <1>15, <1>16 DEF CatalogueStep

LEMMA NamesAlways == Spec => []NamesInv
<1>1. StorefrontInit => NamesInv
  BY DEF StorefrontInit, CatalogueInit, NamesInv, NameOK, Renaming, Checked, ProductStep
<1>2. ASSUME TypeInv, NamesInv, [StorefrontNext]_vars PROVE NamesInv'
  <2>0. Requests /\ Documents /\ Belongings
    BY <1>2 DEF TypeInv
  <2>1. CASE UNCHANGED vars
    BY <1>2, <2>1 DEF NamesInv, NameOK, vars, catalogueVars, collections
  <2>2. CASE StorefrontNext
    <3>1. \A step, r : NameOK(step, r) => NameOK(step, r)'
      BY <1>2, <2>2, CategoriesSettle, NamesStay
    <3>2. \A g \in Handler : NameOK(at[g], req[g])
      BY <1>2 DEF NamesInv
    <3>3. ASSUME NEW h \in Handler, AdminStep(h) PROVE \A g \in Handler : NameOK(at'[g], req'[g])
      <4>1. CatalogueStep(h)
        BY <3>3 DEF AdminStep
      <4>2. NameOK(at'[h], req'[h])
        BY <1>2, <2>0, <4>1, NamesRead
      <4>3. \A g \in Handler \ {h} : at'[g] = at[g] /\ req'[g] = req[g]
        BY <2>0, <4>1, CatalogueRequests DEF Served, MovedTo
      <4> QED
        BY <3>2, <4>2, <4>3
    <3>4. ASSUME NEW h \in Handler, NEW step, step \notin Renaming \cup Checked, MovedTo(h, step)
          PROVE  \A g \in Handler : NameOK(at'[g], req'[g])
      <4>1. NameOK(at'[h], req'[h])
        BY <3>4 DEF MovedTo, NameOK
      <4> QED
        BY <3>2, <3>4, <4>1 DEF MovedTo
    <3>5. \A step \in ShopStep \cup {"idle", "cart.write"} : step \notin Renaming \cup Checked
      BY DEF ShopStep, Renaming, Checked, ProductStep
    <3>6. ASSUME NEW h \in Handler, ShopHandlerStep(h) PROVE \A g \in Handler : NameOK(at'[g], req'[g])
      <4>1. PICK step \in {"idle", "cart.write"} : MovedTo(h, step)
        BY <2>0, <3>6, ShopHandlerRequests
      <4> QED
        BY <3>4, <3>5, <4>1
    <3>7. ASSUME NEW h \in Handler, NEW u \in Customer, CustomerStep(h, u)
          PROVE  \A g \in Handler : NameOK(at'[g], req'[g])
      <4>1. PICK step \in ShopStep : MovedTo(h, step)
        BY <2>0, <3>7, CustomerRequests
      <4> QED
        BY <3>4, <3>5, <4>1
    <3>8. ASSUME UNCHANGED <<at, req>> PROVE \A g \in Handler : NameOK(at'[g], req'[g])
      <4>1. \A g \in Handler : at'[g] = at[g] /\ req'[g] = req[g]
        BY <3>8
      <4> QED
        BY <3>2, <4>1
    <3>9. ASSUME \/ \E u \in Customer : CustomerCall(u)
                 \/ \E r \in reviews : RemoveReview(r)
                 \/ \E line \in unsold : SellLine(line[1], line[2])
          PROVE  \A g \in Handler : NameOK(at'[g], req'[g])
      <4>1. UNCHANGED <<at, req>>
        BY <2>0, <3>9, OtherRequests
      <4> QED
        BY <3>8, <4>1
    <3>10. \A g \in Handler : NameOK(at'[g], req'[g])
      BY <2>2, <3>3, <3>6, <3>7, <3>9, SomeStep
    <3> QED
      BY <3>1, <3>10 DEF NamesInv
  <2> QED
    BY <1>2, <2>1, <2>2
<1> QED
  BY <1>1, <1>2, TypeAlways, PTL DEF Spec

\* The product belongs to its brand's category and has that category's attributes.
FitsDoc(doc) ==
    /\ brands[doc.brand] = doc.category
    /\ AttributesComplete(categories[doc.category], doc.attributes)

FitInv == \A p \in DOMAIN products \ (raced \cup moved) : FitsDoc(products[p])

\* A step of an administrator that concerns neither a brand nor its products.
LEMMA BrandKept ==
    ASSUME Documents, NEW h \in Handler, CatalogueStep(h), ReferencesHold, ReferencesHold',
           NEW p \in DOMAIN products \ (raced \cup moved), p \in DOMAIN products' \ (raced' \cup moved'),
           products'[p].brand = products[p].brand
    PROVE  brands'[products[p].brand] = brands[products[p].brand]
<1> DEFINE r == req[h]
           b == products[p].brand
<1>1. b \in DOMAIN brands /\ b \in DOMAIN brands'
  BY DEF ReferencesHold
<1>2. CASE UNCHANGED brands
  BY <1>2
<1>3. ASSUME NEW x \in Brand, InsertBrand(h, x) PROVE brands'[b] = brands[b]
  <2>1. x \notin drawn /\ brands' = with(brands, x, r.form.category)
    BY <1>3 DEF InsertBrand, fresh
  <2>2. b # x
    BY <1>1, <2>1 DEF Documents, Keeps
  <2> HIDE DEF r, b
  <2>3. with(brands, x, r.form.category)[b] = brands[b]
    BY <1>1, <2>2 DEF with
  <2> QED
    BY <2>1, <2>3
<1>4. CASE SaveBrand(h)
  <2>1. CASE r.id \in DOMAIN brands /\ r.form # r.base
    <3>1. /\ brands' = [brands EXCEPT ![r.id] = r.form.category]
          /\ moved' = moved \cup {q \in DOMAIN products : products[q].brand = r.id}
      BY <1>4, <2>1 DEF SaveBrand
    <3>2. b # r.id
      BY <3>1
    <3> HIDE DEF r, b
    <3> QED
      BY <1>1, <3>1, <3>2
  <2>2. CASE ~(r.id \in DOMAIN brands /\ r.form # r.base)
    BY <1>2, <1>4, <2>2 DEF SaveBrand
  <2> QED
    BY <2>1, <2>2
<1>5. ASSUME DeleteBrand(h) PROVE brands'[b] = brands[b]
  <2>1. brands' = without(brands, r.id)
    BY <1>5 DEF DeleteBrand
  <2> HIDE DEF r, b
  <2>2. /\ DOMAIN without(brands, r.id) = DOMAIN brands \ {r.id}
        /\ \A x \in DOMAIN brands \ {r.id} : without(brands, r.id)[x] = brands[x]
    BY DEF without
  <2> QED
    BY <1>1, <2>1, <2>2
<1>6. CategoryStep(h) \/ EditStep(h) => UNCHANGED brands
  BY DEF CategoryStep, EditStep, CreateCategory, InsertCategory, UpdateCategory,
         UpdateCategoryExists, SaveCategory, RemoveCategory, CountInCategory, DeleteCategory,
         CreateProduct, UpdateProduct, UpdateProductCategory, CheckBrand, CheckSku, FindSlug,
         InsertProduct, SaveProduct, DeleteProductLoad, DeleteProduct, Reading, collections
<1>7. BrandStep(h) => \/ UNCHANGED brands \/ \E x \in Brand : InsertBrand(h, x)
                      \/ SaveBrand(h) \/ DeleteBrand(h)
  BY DEF BrandStep, CreateBrand, UpdateBrand, UpdateBrandCategory, DeleteBrandLoad, CountOfBrand,
         Reading, collections
<1> QED
  BY <1>2, <1>3, <1>4, <1>5, <1>6, <1>7, CatalogueSteps

\* What is stored of a complete form are the attributes of the category it was checked with.
LEMMA FilledFits ==
    ASSUME NEW r, NEW name, SameFields(name, r.name), AttributesComplete(r.name, r.form.attributes)
    PROVE  /\ AttributesComplete(name, Filled(r).attributes)
           /\ Filled(r).category = r.form.category /\ Filled(r).brand = r.form.brand
<1>1. /\ Filled(r).attributes = sanitizeAttributes(r.name, r.form.attributes)
      /\ Filled(r).category = r.form.category /\ Filled(r).brand = r.form.brand
  BY DEF Filled
<1>2. AttributesComplete(r.name, sanitizeAttributes(r.name, r.form.attributes))
  BY DEF AttributesComplete, sanitizeAttributes
<1> QED
  BY <1>1, <1>2 DEF AttributesComplete, SameFields

\* A save that meets what it had loaded writes the category, brand and attributes of the form.
LEMMA SavedUnmixed ==
    ASSUME NEW stored \in ProductDoc, NEW edit, NEW base, ~Mixed(stored, base)
    PROVE  LET doc == SavedPaths(stored, base, edit) IN
           doc.category = edit.category /\ doc.brand = edit.brand /\ doc.attributes = edit.attributes
<1>1. \A path \in {"category", "brand", "attributes"} :
         path \in DOMAIN stored /\ stored[path] = base[path]
  BY DEF Mixed, ProductDoc
<1> QED
  BY <1>1 DEF SavedPaths

LEMMA FitInserted ==
    ASSUME Requests, Documents, NamesInv, ReferencesHold', NEW h \in Handler, NEW p \in Product,
           InsertProduct(h, p), p \in DOMAIN products' \ (raced' \cup moved'), p \notin DOMAIN products
    PROVE  FitsDoc(products[p])'
<1> DEFINE r == req[h]
           doc == Filled(r)
<1>1. /\ at[h] = "product.insert" /\ UNCHANGED <<categories, brands>>
      /\ products' = with(products, p, doc) /\ ~ReferenceLost(doc)
  BY DEF InsertProduct
<1>2. RequestOK(at[h], r) /\ NameOK(at[h], r)
  BY DEF Requests, NamesInv
<1>3. with(products, p, doc)[p] = doc
  BY DEF with
<1>4. products'[p] = doc /\ doc.category \in DOMAIN categories
  <2>1. products'[p] = doc
    BY <1>1, <1>3
  <2>2. products'[p].category \in DOMAIN categories'
    BY DEF ReferencesHold
  <2> HIDE DEF doc
  <2> QED
    BY <1>1, <2>1, <2>2
<1>5. AttributesComplete(r.name, r.form.attributes)
  BY <1>1, <1>2 DEF RequestOK
<1>6. doc.category = r.form.category
  BY DEF Filled
<1>7. SameFields(categories[doc.category], r.name)
  BY <1>1, <1>2, <1>4, <1>6 DEF NameOK, Checked, ProductStep
<1>8. AttributesComplete(categories[doc.category], doc.attributes)
  BY <1>5, <1>7, FilledFits
<1>9. brands[doc.brand] = doc.category
  BY <1>1 DEF ReferenceLost
<1> HIDE DEF doc
<1> QED
  BY <1>1, <1>4, <1>8, <1>9 DEF FitsDoc

LEMMA FitSaved ==
    ASSUME Requests, Documents, NamesInv, FitInv, ReferencesHold', NEW h \in Handler,
           SaveProduct(h), NEW p \in DOMAIN products, p = req[h].id,
           p \in DOMAIN products' \ (raced' \cup moved'), raced \subseteq raced', moved \subseteq moved'
    PROVE  FitsDoc(products[p])'
<1> DEFINE r == req[h]
           doc == SavedPaths(products[p], r.base, Filled(r))
<1>1. at[h] = "product.save" /\ UNCHANGED <<categories, brands>> /\ p \notin raced \cup moved
  BY DEF SaveProduct
<1>2. FitsDoc(products[p])
  BY <1>1 DEF FitInv
<1>3. CASE UNCHANGED products
  BY <1>1, <1>2, <1>3 DEF FitsDoc
<1>4. CASE ~UNCHANGED products
  <2>1. /\ products' = [products EXCEPT ![p] = doc]
        /\ ~Mixed(products[p], r.base)
        /\ Repointed(products[p], doc) => ~ReferenceLost(doc)
    BY <1>4 DEF SaveProduct
  <2>2. RequestOK(at[h], r) /\ NameOK(at[h], r)
    BY DEF Requests, NamesInv
  <2>3. AttributesComplete(r.name, r.form.attributes)
    BY <1>1, <2>2 DEF RequestOK
  <2>4. Filled(r).category = r.form.category /\ Filled(r).brand = r.form.brand
    BY DEF Filled
  <2>5. products[p] \in ProductDoc
    BY DEF Documents, Keeps
  <2>6. /\ doc.category = Filled(r).category /\ doc.brand = Filled(r).brand
        /\ doc.attributes = Filled(r).attributes
    BY <2>1, <2>5, SavedUnmixed
  <2> HIDE DEF doc
  <2>7. products'[p] = doc
    BY <2>1
  <2>8. doc.category \in DOMAIN categories
    BY <1>1, <2>7 DEF ReferencesHold
  <2>9. SameFields(categories[doc.category], r.name)
    BY <1>1, <2>2, <2>4, <2>6, <2>8 DEF NameOK, Checked, ProductStep
  <2>10. AttributesComplete(categories[doc.category], doc.attributes)
    BY <2>3, <2>6, <2>9, FilledFits
  <2>11. brands[doc.brand] = doc.category
    BY <1>2, <2>1 DEF Repointed, ReferenceLost, FitsDoc
  <2> QED
    BY <1>1, <2>7, <2>10, <2>11 DEF FitsDoc
<1> QED
  BY <1>3, <1>4

\* What a product fits, it fits after a step that leaves it and its brand alone.
LEMMA FitKept ==
    ASSUME Documents, Settled, FitInv, ReferencesHold, ReferencesHold',
           NEW p \in DOMAIN products \ (raced \cup moved), p \in DOMAIN products' \ (raced' \cup moved'),
           products'[p].category = products[p].category, products'[p].brand = products[p].brand,
           products'[p].attributes = products[p].attributes,
           brands'[products[p].brand] = brands[products[p].brand]
    PROVE  FitsDoc(products[p])'
<1> DEFINE c == products[p].category
<1>1. FitsDoc(products[p])
  BY DEF FitInv
<1>2. c \in DOMAIN categories /\ c \in DOMAIN categories'
  BY DEF ReferencesHold
<1>3. SameFields(categories'[c], categories[c])
  BY <1>2 DEF Settled, Documents, Keeps
<1>4. AttributesComplete(categories'[c], products[p].attributes)
  BY <1>1, <1>3 DEF FitsDoc, AttributesComplete, SameFields
<1> QED
  BY <1>1, <1>4 DEF FitsDoc

LEMMA MarksStay ==
    ASSUME NEW h \in Handler, CatalogueStep(h)
    PROVE  raced \subseteq raced' /\ moved \subseteq moved'
<1>1. CategoryStep(h) => UNCHANGED <<raced, moved>>
  BY DEF CategoryStep, CreateCategory, InsertCategory, UpdateCategory, UpdateCategoryExists,
         SaveCategory, RemoveCategory, CountInCategory, DeleteCategory, Reading
<1>2. BrandStep(h) => raced \subseteq raced' /\ moved \subseteq moved'
  BY DEF BrandStep, CreateBrand, InsertBrand, UpdateBrand, UpdateBrandCategory, SaveBrand,
         DeleteBrandLoad, CountOfBrand, DeleteBrand, Reading
<1>3. EditStep(h) => raced \subseteq raced' /\ moved \subseteq moved'
  BY DEF EditStep, CreateProduct, UpdateProduct, UpdateProductCategory, CheckBrand, CheckSku,
         FindSlug, InsertProduct, SaveProduct, DeleteProductLoad, DeleteProduct, Reading
<1> QED
  BY <1>1, <1>2, <1>3, CatalogueSteps

\* Where a product comes from, and which step of a handler may edit it.
LEMMA ProductsFrom ==
    ASSUME NEW h \in Handler, CatalogueStep(h)
    PROVE  /\ \A p \in DOMAIN products' \ DOMAIN products : p \in Product /\ InsertProduct(h, p)
           /\ at[h] = "product.save" => SaveProduct(h)
<1>1. CASE CategoryStep(h) \/ BrandStep(h)
  <2>1. UNCHANGED products
    BY <1>1 DEF CategoryStep, BrandStep, CreateCategory, InsertCategory, UpdateCategory,
         UpdateCategoryExists, SaveCategory, RemoveCategory, CountInCategory, DeleteCategory,
         CreateBrand, InsertBrand, UpdateBrand, UpdateBrandCategory, SaveBrand, DeleteBrandLoad,
         CountOfBrand, DeleteBrand, Reading, collections
  <2>2. at[h] # "product.save"
    BY <1>1 DEF CategoryStep, BrandStep, CreateCategory, InsertCategory, UpdateCategory,
         UpdateCategoryExists, SaveCategory, RemoveCategory, CountInCategory, DeleteCategory,
         CreateBrand, InsertBrand, UpdateBrand, UpdateBrandCategory, SaveBrand, DeleteBrandLoad,
         CountOfBrand, DeleteBrand, Accept
  <2> QED
    BY <2>1, <2>2
<1>2. ASSUME NEW q \in Product, InsertProduct(h, q)
      PROVE  /\ \A p \in DOMAIN products' \ DOMAIN products : p = q
             /\ at[h] # "product.save"
  <2>1. products' = products \/ products' = with(products, q, Filled(req[h]))
    BY <1>2 DEF InsertProduct
  <2>2. DOMAIN with(products, q, Filled(req[h])) = DOMAIN products \cup {q}
    BY WithAndWithout
  <2>3. at[h] # "product.save"
    BY <1>2 DEF InsertProduct
  <2> QED
    BY <2>1, <2>2, <2>3
<1>3. CASE SaveProduct(h)
  <2> DEFINE doc == SavedPaths(products[req[h].id], req[h].base, Filled(req[h]))
  <2>1. products' = products \/ products' = [products EXCEPT ![req[h].id] = doc]
    BY <1>3 DEF SaveProduct
  <2> HIDE DEF doc
  <2> QED
    BY <1>3, <2>1
<1>4. CASE DeleteProduct(h)
  <2>1. products' = without(products, req[h].id) /\ at[h] # "product.save"
    BY <1>4 DEF DeleteProduct
  <2>2. DOMAIN without(products, req[h].id) = DOMAIN products \ {req[h].id}
    BY WithAndWithout
  <2> QED
    BY <2>1, <2>2
<1>5. CASE \/ \E form \in Form : CreateProduct(h, form)
           \/ \E p \in Product, form \in Form : UpdateProduct(h, p, form)
           \/ UpdateProductCategory(h) \/ CheckBrand(h) \/ CheckSku(h) \/ FindSlug(h)
           \/ \E p \in Product : DeleteProductLoad(h, p)
  <2>1. UNCHANGED products /\ at[h] # "product.save"
    BY <1>5 DEF CreateProduct, UpdateProduct, UpdateProductCategory, CheckBrand, CheckSku, FindSlug,
                DeleteProductLoad, Reading, collections, Accept
  <2> QED
    BY <2>1
<1> QED
  BY <1>1, <1>2, <1>3, <1>4, <1>5, CatalogueSteps DEF EditStep

LEMMA FitAlways == Spec => []FitInv
<1>1. StorefrontInit => FitInv
  BY CatalogueAssumption DEF StorefrontInit, CatalogueInit, FitInv, FitsDoc
<1>2. ASSUME TypeInv, NamesInv, FitInv, ReferencesHold, ReferencesHold', [StorefrontNext]_vars
      PROVE  FitInv'
  <2>0. Requests /\ Documents /\ Belongings
    BY <1>2 DEF TypeInv
  <2>1. CASE UNCHANGED <<collections, raced, moved>>
    BY <1>2, <2>1 DEF FitInv, FitsDoc, collections
  <2>2. CASE UNCHANGED vars
    BY <2>1, <2>2 DEF vars, catalogueVars
  <2>3. CASE StorefrontNext
    <3>0. Settled
      BY <1>2, <2>3, CategoriesSettle
    <3>1. ASSUME NEW h \in Handler, AdminStep(h), NEW p \in DOMAIN products' \ (raced' \cup moved')
          PROVE  FitsDoc(products[p])'
      <4>0. CatalogueStep(h) /\ raced \subseteq raced' /\ moved \subseteq moved'
        BY <3>1, MarksStay DEF AdminStep
      <4>1. CASE p \notin DOMAIN products
        BY <1>2, <2>0, <3>1, <4>0, <4>1, ProductsFrom, FitInserted
      <4>2. CASE p \in DOMAIN products /\ at[h] = "product.save" /\ req[h].id = p
        BY <1>2, <2>0, <3>1, <4>0, <4>2, ProductsFrom, FitSaved
      <4>3. CASE p \in DOMAIN products /\ (at[h] # "product.save" \/ req[h].id # p)
        <5>1. products'[p] = products[p]
          BY <2>0, <3>1, <4>0, <4>3, OnlySavesEdit
        <5>2. brands'[products[p].brand] = brands[products[p].brand]
          BY <1>2, <2>0, <3>1, <4>0, <4>3, <5>1, BrandKept
        <5> QED
          BY <1>2, <2>0, <3>0, <3>1, <4>0, <4>3, <5>1, <5>2, FitKept
      <4> QED
        BY <4>1, <4>2, <4>3
    <3>2. ASSUME NEW line \in unsold, SellLine(line[1], line[2]),
                 NEW p \in DOMAIN products' \ (raced' \cup moved')
          PROVE  FitsDoc(products[p])'
      <4>1. /\ UNCHANGED <<categories, brands, raced, moved>> /\ p \in DOMAIN products
            /\ products'[p].category = products[p].category
            /\ products'[p].brand = products[p].brand
        BY <2>0, <3>2, SellLineDocuments DEF SellLine
      <4>2. products[p] \in ProductDoc
        BY <2>0, <4>1 DEF Documents, Keeps
      <4>3. products'[p].attributes = products[p].attributes
        <5> DEFINE doc == [products[line[1]] EXCEPT !.stockQty = @ - line[2]]
        <5>1. \/ UNCHANGED products
              \/ line[1] \in DOMAIN products /\ products' = [products EXCEPT ![line[1]] = doc]
          BY <3>2 DEF SellLine
        <5>2. line[1] = p => doc.attributes = products[p].attributes
          BY <4>2 DEF ProductDoc
        <5> HIDE DEF doc
        <5> QED
          BY <4>1, <5>1, <5>2
      <4> QED
        BY <1>2, <2>0, <3>0, <3>2, <4>1, <4>3, FitKept
    <3>3. UNCHANGED <<collections, drawn, raced, moved, ledger, stale>>
          => UNCHANGED <<collections, raced, moved>>
      OBVIOUS
    <3> QED
      BY <2>1, <2>3, <3>1, <3>2, <3>3, SomeStep, ShopDocuments DEF FitInv
  <2> QED
    BY <1>2, <2>2, <2>3
<1> QED
  BY <1>1, <1>2, TypeAlways, NamesAlways, ReferencesAlwaysHold, PTL DEF Spec

-------------------------------------------------------------------------------
(* The counts beside the filters *)

\* The options of an attribute are at most seven; a shorter list repeats its last.
LEMMA FewAreFinite ==
    ASSUME NEW a, NEW b, NEW c, NEW d, NEW e, NEW x, NEW y
    PROVE  IsFiniteSet({a, b, c, d, e, x, y})
<1>1. \A S, z : IsFiniteSet(S) => IsFiniteSet(S \cup {z})
  BY FS_AddElement
<1>2. IsFiniteSet(((((({a} \cup {b}) \cup {c}) \cup {d}) \cup {e}) \cup {x}) \cup {y})
  <2>1. IsFiniteSet({a})
    BY FS_Singleton
  <2> QED
    BY <1>1, <2>1
<1>3. {a, b, c, d, e, x, y} = ((((({a} \cup {b}) \cup {c}) \cup {d}) \cup {e}) \cup {x}) \cup {y}
  OBVIOUS
<1> QED
  BY <1>2, <1>3

LEMMA OptionsFinite ==
    ASSUME NEW name, NEW field \in DOMAIN getAttributeFields(name)
    PROVE  IsFiniteSet(getAttributeFields(name)[field])
<1> DEFINE options == PRODUCT_ATTRIBUTE_SCHEMA[name][field]
<1>1. /\ name \in DOMAIN PRODUCT_ATTRIBUTE_SCHEMA
      /\ getAttributeFields(name)[field] = options
      /\ field \in DOMAIN PRODUCT_ATTRIBUTE_SCHEMA[name]
  BY DEF getAttributeFields, NoAttributes
<1> HIDE DEF options
<1>2. CASE name = "cigarettes"
  <2>1. field \in {"strength", "cigaretteSize"}
    BY <1>1, <1>2 DEF PRODUCT_ATTRIBUTE_SCHEMA
  <2>2. CASE field = "strength"
    <3>1. options = {"ultra light", "light", "medium", "full strength"}
      BY <1>2, <2>2 DEF PRODUCT_ATTRIBUTE_SCHEMA, options
    <3>2. IsFiniteSet({"ultra light", "light", "medium", "full strength", "full strength",
                       "full strength", "full strength"})
      BY FewAreFinite
    <3>3. {"ultra light", "light", "medium", "full strength"} =
             {"ultra light", "light", "medium", "full strength", "full strength",
              "full strength", "full strength"}
      OBVIOUS
    <3> QED
      BY <1>1, <3>1, <3>2, <3>3
  <2>3. CASE field = "cigaretteSize"
    <3>1. options = {"king size", "super king size", "slims"}
      BY <1>2, <2>3 DEF PRODUCT_ATTRIBUTE_SCHEMA, options
    <3>2. IsFiniteSet({"king size", "super king size", "slims", "slims", "slims", "slims", "slims"})
      BY FewAreFinite
    <3>3. {"king size", "super king size", "slims"} =
             {"king size", "super king size", "slims", "slims", "slims", "slims", "slims"}
      OBVIOUS
    <3> QED
      BY <1>1, <3>1, <3>2, <3>3
  <2> QED
    BY <2>1, <2>2, <2>3
<1>3. CASE name = "cigars"
  <2>1. field \in {"vitola", "origin", "wrapperColor"}
    BY <1>1, <1>3 DEF PRODUCT_ATTRIBUTE_SCHEMA
  <2>2. CASE field = "vitola"
    <3>1. options = {"robusto", "churchill", "toro", "corona", "panetela"}
      BY <1>3, <2>2 DEF PRODUCT_ATTRIBUTE_SCHEMA, options
    <3>2. IsFiniteSet({"robusto", "churchill", "toro", "corona", "panetela", "panetela",
                       "panetela"})
      BY FewAreFinite
    <3>3. {"robusto", "churchill", "toro", "corona", "panetela"} =
             {"robusto", "churchill", "toro", "corona", "panetela", "panetela", "panetela"}
      OBVIOUS
    <3> QED
      BY <1>1, <3>1, <3>2, <3>3
  <2>3. CASE field = "origin"
    <3>1. options = {"cuba", "nicaragua", "dominican republic", "honduras"}
      BY <1>3, <2>3 DEF PRODUCT_ATTRIBUTE_SCHEMA, options
    <3>2. IsFiniteSet({"cuba", "nicaragua", "dominican republic", "honduras", "honduras",
                       "honduras", "honduras"})
      BY FewAreFinite
    <3>3. {"cuba", "nicaragua", "dominican republic", "honduras"} =
             {"cuba", "nicaragua", "dominican republic", "honduras", "honduras", "honduras",
              "honduras"}
      OBVIOUS
    <3> QED
      BY <1>1, <3>1, <3>2, <3>3
  <2>4. CASE field = "wrapperColor"
    <3>1. options = {"natural", "claro", "colorado", "maduro"}
      BY <1>3, <2>4 DEF PRODUCT_ATTRIBUTE_SCHEMA, options
    <3>2. IsFiniteSet({"natural", "claro", "colorado", "maduro", "maduro", "maduro", "maduro"})
      BY FewAreFinite
    <3>3. {"natural", "claro", "colorado", "maduro"} =
             {"natural", "claro", "colorado", "maduro", "maduro", "maduro", "maduro"}
      OBVIOUS
    <3> QED
      BY <1>1, <3>1, <3>2, <3>3
  <2> QED
    BY <2>1, <2>2, <2>3, <2>4
<1>4. CASE name = "ryo"
  <2>1. field \in {"leafOrigin", "strength"}
    BY <1>1, <1>4 DEF PRODUCT_ATTRIBUTE_SCHEMA
  <2>2. CASE field = "leafOrigin"
    <3>1. options = {"virginia", "burley", "oriental", "latakia"}
      BY <1>4, <2>2 DEF PRODUCT_ATTRIBUTE_SCHEMA, options
    <3>2. IsFiniteSet({"virginia", "burley", "oriental", "latakia", "latakia", "latakia",
                       "latakia"})
      BY FewAreFinite
    <3>3. {"virginia", "burley", "oriental", "latakia"} =
             {"virginia", "burley", "oriental", "latakia", "latakia", "latakia", "latakia"}
      OBVIOUS
    <3> QED
      BY <1>1, <3>1, <3>2, <3>3
  <2>3. CASE field = "strength"
    <3>1. options = {"medium", "extra strong"}
      BY <1>4, <2>3 DEF PRODUCT_ATTRIBUTE_SCHEMA, options
    <3>2. IsFiniteSet({"medium", "extra strong", "extra strong", "extra strong", "extra strong",
                       "extra strong", "extra strong"})
      BY FewAreFinite
    <3>3. {"medium", "extra strong"} =
             {"medium", "extra strong", "extra strong", "extra strong", "extra strong",
              "extra strong", "extra strong"}
      OBVIOUS
    <3> QED
      BY <1>1, <3>1, <3>2, <3>3
  <2> QED
    BY <2>1, <2>2, <2>3
<1>5. CASE name = "accessories"
  <2>1. field \in {"accessoryType", "material"}
    BY <1>1, <1>5 DEF PRODUCT_ATTRIBUTE_SCHEMA
  <2>2. CASE field = "accessoryType"
    <3>1. options = {"lighters", "cutters", "cases", "humidors", "ashtrays", "pipes", "gift sets"}
      BY <1>5, <2>2 DEF PRODUCT_ATTRIBUTE_SCHEMA, options
    <3>2. IsFiniteSet({"lighters", "cutters", "cases", "humidors", "ashtrays", "pipes",
                       "gift sets"})
      BY FewAreFinite
    <3> QED
      BY <1>1, <3>1, <3>2
  <2>3. CASE field = "material"
    <3>1. options = {"gold plated", "sterling silver", "leather", "walnut wood", "stainless steel"}
      BY <1>5, <2>3 DEF PRODUCT_ATTRIBUTE_SCHEMA, options
    <3>2. IsFiniteSet({"gold plated", "sterling silver", "leather", "walnut wood",
                       "stainless steel", "stainless steel", "stainless steel"})
      BY FewAreFinite
    <3>3. {"gold plated", "sterling silver", "leather", "walnut wood", "stainless steel"} =
             {"gold plated", "sterling silver", "leather", "walnut wood", "stainless steel",
              "stainless steel", "stainless steel"}
      OBVIOUS
    <3> QED
      BY <1>1, <3>1, <3>2, <3>3
  <2> QED
    BY <2>1, <2>2, <2>3
<1> QED
  BY <1>1, <1>2, <1>3, <1>4, <1>5 DEF PRODUCT_ATTRIBUTE_SCHEMA

\* The counts beside the filters of a category, for whatever fits and refers.
LEMMA FacetsOfFitting ==
    ASSUME FiniteInv, FitInv, ReferencesHold, NEW c \in DOMAIN categories,
           {p \in DOMAIN products : \/ products[p].category = c
                                   \/ products[p].brand \in {b \in DOMAIN brands : brands[b] = c}}
             \cap (raced \cup moved) = {}
    PROVE  LET facets == buildFacets(db, c, FALSE) IN
           /\ DOMAIN facets.brand = {b \in DOMAIN brands : brands[b] = c}
           /\ SumOf(facets.brand) = facets.total
           /\ facets.brand = attachProductCounts(db, DOMAIN facets.brand, FALSE)
           /\ \A field \in DOMAIN facets.attribute : SumOf(facets.attribute[field]) = facets.total
<1> DEFINE listed == {p \in DOMAIN products : products[p].category = c}
           offered == {b \in DOMAIN brands : brands[b] = c}
           fields == getAttributeFields(categories[c])
           having(field, option) ==
               {p \in listed : field \in DOMAIN products[p].attributes
                              /\ products[p].attributes[field] = option}
           byBrand == [b \in offered |-> Cardinality({p \in listed : products[p].brand = b})]
           byOption(field) == [option \in fields[field] |-> Cardinality(having(field, option))]
           facets == buildFacets(db, c, FALSE)
<1>1. facets = [total |-> Cardinality(listed), brand |-> byBrand,
                attribute |-> [field \in DOMAIN fields |-> byOption(field)]]
  BY DEF buildFacets, db
<1>2. IsFiniteSet(listed) /\ IsFiniteSet(offered)
  BY FS_Subset DEF FiniteInv
<1>3. \A p \in listed : FitsDoc(products[p]) /\ products[p].brand \in offered
  BY DEF FitInv, FitsDoc, ReferencesHold
<1>4. SumOf(byBrand) = Cardinality(listed)
  <2> DEFINE part == [p \in listed |-> products[p].brand]
  <2>1. \A p \in listed : part[p] \in offered
    BY <1>3
  <2>2. DOMAIN byBrand = offered
    OBVIOUS
  <2>3. ASSUME NEW b \in offered
        PROVE  byBrand[b] = Cardinality({p \in listed : part[p] = b})
    <3>1. {p \in listed : products[p].brand = b} = {p \in listed : part[p] = b}
      OBVIOUS
    <3> HIDE DEF listed, offered, part
    <3> QED
      BY <3>1
  <2> HIDE DEF listed, offered, byBrand, part
  <2> QED
    BY <1>2, <2>1, <2>2, <2>3, SumOfParts
<1>5. byBrand = attachProductCounts(db, offered, FALSE)
  <2>1. ASSUME NEW b \in offered
        PROVE  {p \in listed : products[p].brand = b} = {p \in DOMAIN products : products[p].brand = b}
    <3>1. ASSUME NEW p \in DOMAIN products, products[p].brand = b PROVE products[p].category = c
      BY <3>1 DEF FitInv, FitsDoc
    <3> QED
      BY <3>1
  <2>2. attachProductCounts(db, offered, FALSE) =
           [b \in offered |-> Cardinality({p \in DOMAIN products : products[p].brand = b})]
    BY DEF attachProductCounts, db
  <2> HIDE DEF listed, offered
  <2> QED
    BY <2>1, <2>2
<1>6. ASSUME NEW field \in DOMAIN fields PROVE SumOf(byOption(field)) = Cardinality(listed)
  <2> DEFINE part == [p \in listed |-> products[p].attributes[field]]
             options == fields[field]
  <2>1. \A p \in listed : /\ field \in DOMAIN products[p].attributes
                          /\ products[p].attributes[field] \in options
    BY <1>3 DEF FitsDoc, AttributesComplete
  <2>2. IsFiniteSet(options)
    BY OptionsFinite
  <2>3. DOMAIN byOption(field) = options
    OBVIOUS
  <2>4. ASSUME NEW option \in options
        PROVE  byOption(field)[option] = Cardinality({p \in listed : part[p] = option})
    <3>1. having(field, option) = {p \in listed : part[p] = option}
      BY <2>1
    <3> HIDE DEF listed, part, having, options
    <3> QED
      BY <3>1 DEF options
  <2>5. \A p \in listed : part[p] \in options
    BY <2>1
  <2> HIDE DEF listed, options, byOption, part
  <2> QED
    BY <1>2, <2>2, <2>3, <2>4, <2>5, SumOfParts
<1> HIDE DEF facets, byBrand, byOption, listed, fields
<1>7. DOMAIN byBrand = offered
  BY DEF byBrand
<1>8. facets.total = Cardinality(listed) /\ facets.brand = byBrand
      /\ DOMAIN facets.attribute = DOMAIN fields
      /\ \A field \in DOMAIN fields : facets.attribute[field] = byOption(field)
  BY <1>1
<1> HIDE DEF offered
<1>9. /\ DOMAIN facets.brand = offered
      /\ SumOf(facets.brand) = facets.total
      /\ facets.brand = attachProductCounts(db, DOMAIN facets.brand, FALSE)
      /\ \A field \in DOMAIN facets.attribute : SumOf(facets.attribute[field]) = facets.total
  BY <1>4, <1>5, <1>6, <1>7, <1>8
<1> QED
  BY <1>9 DEF facets, offered

\* The counts beside the filters (model of ProductService.buildFacets and of
\* BrandService.list): for every stored catalogue, the products counted beside the brands of
\* a category, and beside the options of each of its attributes, are the products of the
\* category, through renamings, moves of brands and edits of products under way at once,
\* unless a brand was moved or a product written on a check that had lapsed.
THEOREM FacetsAlwaysAddUp == Spec => []FacetsAddUp
<1>1. ASSUME FiniteInv, FitInv, ReferencesHold PROVE FacetsAddUp
  <2>1. ASSUME NEW c \in DOMAIN categories
        PROVE  LET facets == buildFacets(db, c, FALSE)
                   listed == {p \in DOMAIN products : \/ products[p].category = c
                                                      \/ products[p].brand \in DOMAIN facets.brand}
               IN listed \cap (raced \cup moved) = {} =>
                    /\ SumOf(facets.brand) = facets.total
                    /\ facets.brand = attachProductCounts(db, DOMAIN facets.brand, FALSE)
                    /\ \A field \in DOMAIN facets.attribute :
                          SumOf(facets.attribute[field]) = facets.total
    <3> DEFINE facets == buildFacets(db, c, FALSE)
    <3>1. DOMAIN facets.brand = {b \in DOMAIN brands : brands[b] = c}
      BY DEF buildFacets, db
    <3> HIDE DEF facets
    <3> QED
      BY <1>1, <3>1, FacetsOfFitting DEF facets
  <2> QED
    BY <2>1, Zenon DEF FacetsAddUp, SumOf
<1> QED
  BY <1>1, FiniteAlways, FitAlways, ReferencesAlwaysHold, PTL
===============================================================================
