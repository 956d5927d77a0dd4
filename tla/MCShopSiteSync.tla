--------------------------- MODULE MCShopSiteSync ---------------------------
EXTENDS ShopSiteSync
=============================================================================
