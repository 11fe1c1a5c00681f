SPECIFICATION LiveSpec
CONSTANTS
  dish = dish
  o1 = o1  o2 = o2  s1 = s1  w1 = w1  w2 = w2
  Items = {dish}
  Orders = {o1, o2}
  Sessions = {s1}
  Workers = {w1, w2}
  Steady = w1
  Price <- MCPrice
  FoodTax <- MCFoodTax
  Baskets <- MCBaskets
  Terms <- MCTerms
  MaxStock = 2
  Marks <- MCMarks
CHECK_DEADLOCK FALSE
INVARIANTS OversoldOnlyByRace BooksClose
PROPERTIES WatchIsTold
